---- MODULE Spec2Model ----
(***************************************************************************)
(* The assessment ledger of the CareerPlanning repository: the four        *)
(* contracts CareerPlanningContract, CareerPlanningSimple,                 *)
(* CareerPlanningFHE and CareerPlanningWithPapers.                         *)
(*                                                                         *)
(* One contract is deployed (variable contract, chosen in Init) and every  *)
(* external function is a transaction: it runs to completion or reverts.   *)
(* A handler is an operator that reads the current storage and returns the *)
(* outcome of the call: the revert string in err ("" when the call         *)
(* succeeds), the returned value in ret, and the storage after the call.   *)
(* A reverted call returns the storage it found.  An action applies one    *)
(* handler to inputs drawn from small sets and commits its outcome.        *)
(*                                                                         *)
(* Amounts are in gwei (1 ether = 10^9 gwei): 0.001 ether is 1000000.      *)
(* keccak256 is a symbolic, collision-free hash.  An FHE handle (ebool,    *)
(* euint8) is modelled by the plaintext it encrypts.  block.timestamp is   *)
(* an input of a transaction (now), never below a timestamp already        *)
(* stored.  CareerPlanningFHE and CareerPlanningWithPapers are Ownable     *)
(* (OpenZeppelin 5): the owner is the deployer until transferOwnership or  *)
(* renounceOwnership changes it.                                           *)
(*                                                                         *)
(* The static file server of the front end, server.js, is modelled next to *)
(* the contracts: its request listener is an operator from a request to    *)
(* the response it writes and the file-system calls it makes.  A path is   *)
(* the sequence of its segments and a segment the sequence of its parts    *)
(* between dots, so that join, normalisation and extname are computed on   *)
(* the structure the strings have.                                         *)
(***************************************************************************)
EXTENDS Integers, Sequences, FiniteSets, TLC

VARIABLES
    contract,           \* which of the four contracts is deployed
    owner,              \* Ownable's owner: the deployer, until ownership changes
    assessmentCounter,  \* uint256 public assessmentCounter
    assessments,        \* mapping(uint256 => CareerAssessment): the written keys
    userAssessments,    \* mapping(address => uint256[])
    papers,             \* mapping(uint256 => Paper)   (CareerPlanningWithPapers)
    paperCounter,       \* uint256 public paperCounter (CareerPlanningWithPapers)
    balance,            \* address(this).balance, in gwei
    events,             \* the log of emitted events, oldest first
    last,               \* the latest call: its function and its revert string
    served              \* server.js: the requests answered, each with its response

vars == <<contract, owner, assessmentCounter, assessments, userAssessments,
          papers, paperCounter, balance, events, last, served>>

----------------------------------------------------------------------------
(* Bounds of the model. *)

\* Assessments the ledger specification creates.
MaxAssessments == 2
\* Assessments the submission specification creates.
MaxSubmissions == 3
\* Assessments the scoring specification creates.
MaxScored == 1
\* Papers the owner adds.
MaxPapers == 1
\* Papers the owner adds in the specification of the papers.
MaxCatalogue == 2
\* Requests the static server answers.
MaxRequests == 2
\* Changes of owner after deployment.
MaxTransfers == 1

----------------------------------------------------------------------------
(* Program constants and the values inputs are drawn from. *)

MIN_FEE == 1000000

Contracts == {"CareerPlanningContract", "CareerPlanningSimple",
              "CareerPlanningFHE", "CareerPlanningWithPapers"}

ZeroAddress == "0x0000000000000000000000000000000000000000"
Deployer == "owner"
SimpleDeployer == "0x7401Bf2064459F60490B1f71d9AFB039c900AB99"
Addresses == {"owner", "user1", "user2"}

\* msg.sender of a read made by eth_call: an account, or the zero address
\* when the call names no sender.  A transaction is signed by an account.
Callers == Addresses \cup {ZeroAddress}

ZeroHash == <<>>

Triples == BOOLEAN \X BOOLEAN \X BOOLEAN

----------------------------------------------------------------------------
(* Storage, mappings and call outcomes. *)

\* A Solidity mapping holds the written keys; every other key reads as zero.
Put(m, k, v) == [x \in DOMAIN m \cup {k} |-> IF x = k THEN v ELSE m[x]]

ZeroAssessment ==
    CASE contract = "CareerPlanningContract" ->
           [user |-> ZeroAddress, careerGoalHash |-> ZeroHash,
            skillLevelHash |-> ZeroHash, educationPriorityHash |-> ZeroHash,
            timestamp |-> 0, resultRequested |-> FALSE, guidanceScore |-> 0]
      [] contract = "CareerPlanningSimple" ->
           [user |-> ZeroAddress, selectedPaper |-> ZeroHash,
            careerGoal |-> ZeroHash, skillLevel |-> ZeroHash,
            educationPriority |-> ZeroHash, timestamp |-> 0, assessmentId |-> 0]
      [] contract = "CareerPlanningFHE" ->
           [user |-> ZeroAddress, careerGoal |-> FALSE, skillLevel |-> FALSE,
            educationPriority |-> FALSE, timestamp |-> 0,
            resultRequested |-> FALSE, guidanceScore |-> 0]
      [] contract = "CareerPlanningWithPapers" ->
           [user |-> ZeroAddress, selectedPaperId |-> 0,
            encryptedCareerGoal |-> 0, encryptedSkillLevel |-> 0,
            encryptedEducationPriority |-> 0, timestamp |-> 0,
            guidanceScore |-> 0]

ZeroPaper == [id |-> 0, title |-> "", description |-> "", authors |-> "",
              isActive |-> FALSE, createdAt |-> 0]

\* assessments[_assessmentId]
assessmentAt(id) == IF id \in DOMAIN assessments THEN assessments[id]
                    ELSE ZeroAssessment

\* papers[_paperId]
paperAt(id) == IF id \in DOMAIN papers THEN papers[id] ELSE ZeroPaper

Storage == [owner |-> owner,
            assessmentCounter |-> assessmentCounter,
            assessments |-> assessments,
            userAssessments |-> userAssessments,
            papers |-> papers,
            paperCounter |-> paperCounter,
            balance |-> balance,
            events |-> events]

\* require(false, msg): the transaction reverts and storage is as it was.
Revert(msg) == [err |-> msg, ret |-> <<>>, st |-> Storage]

\* Mutant: a call returns, as its only value, the counter of the storage it
\* leaves.
Return_counter(st, ret) == [err |-> "", ret |-> <<st.assessmentCounter>>, st |-> st]

\* The call ends normally with storage st and return value ret.
Return(st, ret) == [err |-> "", ret |-> ret, st |-> st]

\* keccak256(abi.encodePacked(...)): a collision-free symbolic hash.
keccak256(packed) == <<"keccak256", packed>>

\* Mutant: the sum is kept in six bits.
checkedAddUint8_narrow(x, y) == IF x + y > 63 THEN [panic |-> TRUE, value |-> (x + y) % 64]
                                ELSE [panic |-> FALSE, value |-> x + y]

\* x + y in checked uint8 arithmetic: the sum, or a panic on overflow.
checkedAddUint8(x, y) == IF x + y > 255 THEN [panic |-> TRUE, value |-> (x + y) % 256]
                         ELSE [panic |-> FALSE, value |-> x + y]

\* Mutant: the fee check is off by one gwei.
feeIsPaid_offByOne(value) == value >= MIN_FEE - 1

\* Mutant: a payment of exactly the fee is refused.
feeIsPaid_strict(value) == value > MIN_FEE

\* require(msg.value >= 0.001 ether, "Minimum fee required")
feeIsPaid(value) == value >= MIN_FEE

\* assessmentCounter++ : the id of the record being created
\* Mutant: the counter is incremented twice.
nextAssessmentId_skip == assessmentCounter + 2

\* Mutant: the id is taken before the counter is incremented.
nextAssessmentId_stale == assessmentCounter

nextAssessmentId == assessmentCounter + 1

\* Mutant: the new id is put at the front of the sender's list.
pushAssessment_front(sender, id) ==
    [userAssessments EXCEPT ![sender] = <<id>> \o @]

\* userAssessments[msg.sender].push(assessmentCounter)
pushAssessment(sender, id) ==
    [userAssessments EXCEPT ![sender] = Append(@, id)]

\* Mutant: a record that has no user passes for the caller's.
isSubmitter_orUnset(assessment, sender) ==
    assessment.user = sender \/ assessment.user = ZeroAddress

\* require(assessment.user == msg.sender, ...)
isSubmitter(assessment, sender) == assessment.user = sender

\* Mutant: the fee of a submit is not credited to the contract.
Submitted_free(sender, value, id, record, event) ==
    [Storage EXCEPT !.assessmentCounter = id,
                    !.assessments = Put(assessments, id, record),
                    !.userAssessments = pushAssessment(sender, id),
                    !.events = Append(events, event)]

\* Storage after a submit that stored record under id and took value as fee.
Submitted(sender, value, id, record, event) ==
    [Storage EXCEPT !.assessmentCounter = id,
                    !.assessments = Put(assessments, id, record),
                    !.userAssessments = pushAssessment(sender, id),
                    !.balance = balance + value,
                    !.events = Append(events, event)]

----------------------------------------------------------------------------
(* CareerPlanningContract *)

\* Mutant: the skill bonus is 15, like the other two.
Contract_calculateGuidanceScore_skill15(careerGoal, skillLevel, educationPriority) ==
    LET s0 == [panic |-> FALSE, value |-> 50]
        s1 == IF careerGoal THEN checkedAddUint8(s0.value, 15) ELSE s0
        s2 == IF skillLevel THEN checkedAddUint8(s1.value, 15) ELSE s1
        s3 == IF educationPriority THEN checkedAddUint8(s2.value, 15) ELSE s2
    IN  [panic |-> s1.panic \/ s2.panic \/ s3.panic, value |-> s3.value]

Contract_calculateGuidanceScore(careerGoal, skillLevel, educationPriority) ==
    LET s0 == [panic |-> FALSE, value |-> 50]
        s1 == IF careerGoal THEN checkedAddUint8(s0.value, 15) ELSE s0
        s2 == IF skillLevel THEN checkedAddUint8(s1.value, 20) ELSE s1
        s3 == IF educationPriority THEN checkedAddUint8(s2.value, 15) ELSE s2
    IN  [panic |-> s1.panic \/ s2.panic \/ s3.panic, value |-> s3.value]

\* Mutant: a submit that pays too little returns early and keeps the payment.
Contract_submitCareerAssessment_keepsLowFee(sender, value, now, careerGoal, skillLevel, educationPriority, nonce) ==
    IF ~feeIsPaid(value)
    THEN Return([Storage EXCEPT !.balance = balance + value], <<>>)
    ELSE
    LET id == nextAssessmentId
        goalHash == keccak256(<<sender, careerGoal, nonce, "goal">>)
        skillHash == keccak256(<<sender, skillLevel, nonce, "skill">>)
        eduHash == keccak256(<<sender, educationPriority, nonce, "education">>)
        score == Contract_calculateGuidanceScore(careerGoal, skillLevel,
                                                 educationPriority)
        record == [user |-> sender, careerGoalHash |-> goalHash,
                   skillLevelHash |-> skillHash,
                   educationPriorityHash |-> eduHash, timestamp |-> now,
                   resultRequested |-> FALSE, guidanceScore |-> score.value]
        event == [name |-> "AssessmentSubmitted", user |-> sender,
                  assessmentId |-> id, timestamp |-> now]
    IN  IF score.panic THEN Revert("Panic(0x11)")
        ELSE Return(Submitted(sender, value, id, record, event), <<>>)

Contract_submitCareerAssessment(sender, value, now, careerGoal, skillLevel, educationPriority, nonce) ==
    IF ~feeIsPaid(value) THEN Revert("Minimum fee required")
    ELSE
    LET id == nextAssessmentId
        goalHash == keccak256(<<sender, careerGoal, nonce, "goal">>)
        skillHash == keccak256(<<sender, skillLevel, nonce, "skill">>)
        eduHash == keccak256(<<sender, educationPriority, nonce, "education">>)
        score == Contract_calculateGuidanceScore(careerGoal, skillLevel,
                                                 educationPriority)
        record == [user |-> sender, careerGoalHash |-> goalHash,
                   skillLevelHash |-> skillHash,
                   educationPriorityHash |-> eduHash, timestamp |-> now,
                   resultRequested |-> FALSE, guidanceScore |-> score.value]
        event == [name |-> "AssessmentSubmitted", user |-> sender,
                  assessmentId |-> id, timestamp |-> now]
    IN  IF score.panic THEN Revert("Panic(0x11)")
        ELSE Return(Submitted(sender, value, id, record, event), <<>>)

\* Mutant: the request stores the record anew, without its score.
Contract_requestAssessmentResult_rewrite(sender, assessmentId) ==
    LET assessment == assessmentAt(assessmentId) IN
    IF ~isSubmitter(assessment, sender) THEN Revert("Not your assessment")
    ELSE IF assessment.resultRequested THEN Revert("Result already requested")
    ELSE Return([Storage EXCEPT
                   !.assessments = Put(assessments, assessmentId,
                        [assessment EXCEPT !.resultRequested = TRUE,
                                           !.guidanceScore = 0]),
                   !.events = Append(events,
                        [name |-> "ResultRequested", user |-> sender,
                         assessmentId |-> assessmentId])],
                <<>>)

\* Mutant: an id that was never assigned is reported as such.
Contract_requestAssessmentResult_notFound(sender, assessmentId) ==
    LET assessment == assessmentAt(assessmentId) IN
    IF assessment.user = ZeroAddress THEN Revert("Assessment not found")
    ELSE IF ~isSubmitter(assessment, sender) THEN Revert("Not your assessment")
    ELSE IF assessment.resultRequested THEN Revert("Result already requested")
    ELSE Return([Storage EXCEPT
                   !.assessments = Put(assessments, assessmentId,
                        [assessment EXCEPT !.resultRequested = TRUE]),
                   !.events = Append(events,
                        [name |-> "ResultRequested", user |-> sender,
                         assessmentId |-> assessmentId])],
                <<>>)

\* Mutant: a result can be requested again.
Contract_requestAssessmentResult_again(sender, assessmentId) ==
    LET assessment == assessmentAt(assessmentId) IN
    IF ~isSubmitter(assessment, sender) THEN Revert("Not your assessment")
    ELSE Return([Storage EXCEPT
                   !.assessments = Put(assessments, assessmentId,
                        [assessment EXCEPT !.resultRequested = TRUE]),
                   !.events = Append(events,
                        [name |-> "ResultRequested", user |-> sender,
                         assessmentId |-> assessmentId])],
                <<>>)

Contract_requestAssessmentResult(sender, assessmentId) ==
    LET assessment == assessmentAt(assessmentId) IN
    IF ~isSubmitter(assessment, sender) THEN Revert("Not your assessment")
    ELSE IF assessment.resultRequested THEN Revert("Result already requested")
    ELSE Return([Storage EXCEPT
                   !.assessments = Put(assessments, assessmentId,
                        [assessment EXCEPT !.resultRequested = TRUE]),
                   !.events = Append(events,
                        [name |-> "ResultRequested", user |-> sender,
                         assessmentId |-> assessmentId])],
                <<>>)

\* Mutant: the guidance is read in two phases, as in CareerPlanningFHE.
Contract_getCareerGuidance_twoPhase(sender, assessmentId) ==
    LET assessment == assessmentAt(assessmentId) IN
    IF ~isSubmitter(assessment, sender) THEN Revert("Not authorized")
    ELSE IF ~assessment.resultRequested THEN Revert("Result not requested yet")
    ELSE Return(Storage, assessment.guidanceScore)

Contract_getCareerGuidance(sender, assessmentId) ==
    LET assessment == assessmentAt(assessmentId) IN
    IF ~isSubmitter(assessment, sender) THEN Revert("Not authorized")
    ELSE Return(Storage, assessment.guidanceScore)

Contract_withdraw(sender, origin) ==
    IF sender # origin THEN Revert("Only EOA")
    ELSE Return([Storage EXCEPT !.balance = 0], <<>>)

\* receive() external payable {}   (the same in the four contracts)
receive(value) == Return([Storage EXCEPT !.balance = balance + value], <<>>)

\* The pure read accessors (the same in the four contracts).
getUserAssessmentCount(user) == Len(userAssessments[user])
getUserAssessments(user) == userAssessments[user]
getAssessmentCount == assessmentCounter

\* return assessments[_assessmentId].resultRequested
isResultRequested(assessmentId) ==
    Return(Storage, assessmentAt(assessmentId).resultRequested)

\* Mutant: the timestamp is returned to every caller.
getAssessmentTimestamp_open(sender, assessmentId) ==
    Return(Storage, assessmentAt(assessmentId).timestamp)

getAssessmentTimestamp(sender, assessmentId) ==
    LET assessment == assessmentAt(assessmentId) IN
    IF ~isSubmitter(assessment, sender) THEN Revert("Not authorized")
    ELSE Return(Storage, assessment.timestamp)

\* The tuple getAssessmentInfo returns for a record.
assessmentInfo(assessment) ==
    <<assessment.user, assessment.timestamp, assessment.resultRequested>>

getAssessmentInfo(assessmentId) ==
    Return(Storage, assessmentInfo(assessmentAt(assessmentId)))

\* The members of a record, in the order of the struct: what the getter of
\* the public mapping returns for it.
assessmentMembers(assessment) ==
    CASE contract = "CareerPlanningContract" ->
           <<assessment.user, assessment.careerGoalHash, assessment.skillLevelHash,
             assessment.educationPriorityHash, assessment.timestamp,
             assessment.resultRequested, assessment.guidanceScore>>
      [] contract = "CareerPlanningSimple" ->
           <<assessment.user, assessment.selectedPaper, assessment.careerGoal,
             assessment.skillLevel, assessment.educationPriority,
             assessment.timestamp, assessment.assessmentId>>
      [] contract = "CareerPlanningFHE" ->
           <<assessment.user, assessment.careerGoal, assessment.skillLevel,
             assessment.educationPriority, assessment.timestamp,
             assessment.resultRequested, assessment.guidanceScore>>
      [] contract = "CareerPlanningWithPapers" ->
           <<assessment.user, assessment.selectedPaperId,
             assessment.encryptedCareerGoal, assessment.encryptedSkillLevel,
             assessment.encryptedEducationPriority, assessment.timestamp,
             assessment.guidanceScore>>

\* mapping(uint256 => CareerAssessment) public assessments
assessmentsGetter(assessmentId) ==
    Return(Storage, assessmentMembers(assessmentAt(assessmentId)))

getContractBalance == balance

----------------------------------------------------------------------------
(* CareerPlanningSimple *)

Simple_submitCareerAssessment(sender, value, now, paperHash, encryptedCareerGoal, encryptedSkillLevel, encryptedEducationPriority) ==
    IF ~feeIsPaid(value) THEN Revert("Minimum fee required")
    ELSE
    LET id == nextAssessmentId
        record == [user |-> sender, selectedPaper |-> paperHash,
                   careerGoal |-> encryptedCareerGoal,
                   skillLevel |-> encryptedSkillLevel,
                   educationPriority |-> encryptedEducationPriority,
                   timestamp |-> now, assessmentId |-> id]
        event == [name |-> "AssessmentSubmitted", user |-> sender,
                  assessmentId |-> id, timestamp |-> now,
                  selectedPaper |-> paperHash]
    IN  Return(Submitted(sender, value, id, record, event), <<>>)

\* The tuple getAssessment returns for a record.
Simple_assessmentView(assessment) ==
    <<assessment.user, assessment.selectedPaper, assessment.timestamp,
      assessment.assessmentId>>

Simple_getAssessment(id) ==
    Return(Storage, Simple_assessmentView(assessmentAt(id)))

Simple_withdraw(sender) ==
    IF sender # SimpleDeployer THEN Revert("Only deployer")
    ELSE Return([Storage EXCEPT !.balance = 0], <<>>)

----------------------------------------------------------------------------
(* CareerPlanningFHE *)

\* FHE.asEuint8, FHE.select and FHE.add act on the plaintexts under the
\* handles; FHE.add of two euint8 wraps modulo 2^8.
FHE_calculateEncryptedGuidanceScore(careerGoal, skillLevel, educationPriority) ==
    LET asEuint8(v) == v % 256
        select(c, x, y) == IF c THEN x ELSE y
        add(x, y) == (x + y) % 256
        score0 == asEuint8(50)
        careerPoints == select(careerGoal, asEuint8(15), asEuint8(0))
        score1 == add(score0, careerPoints)
        skillPoints == select(skillLevel, asEuint8(20), asEuint8(0))
        score2 == add(score1, skillPoints)
        eduPoints == select(educationPriority, asEuint8(15), asEuint8(0))
    IN  add(score2, eduPoints)

FHE_submitCareerAssessment(sender, value, now, encryptedCareerGoal, encryptedSkillLevel, encryptedEducationPriority) ==
    IF ~feeIsPaid(value) THEN Revert("Minimum fee required")
    ELSE
    LET id == nextAssessmentId
        guidanceScore == FHE_calculateEncryptedGuidanceScore(
                             encryptedCareerGoal, encryptedSkillLevel,
                             encryptedEducationPriority)
        record == [user |-> sender, careerGoal |-> encryptedCareerGoal,
                   skillLevel |-> encryptedSkillLevel,
                   educationPriority |-> encryptedEducationPriority,
                   timestamp |-> now, resultRequested |-> FALSE,
                   guidanceScore |-> guidanceScore]
        event == [name |-> "AssessmentSubmitted", user |-> sender,
                  assessmentId |-> id, timestamp |-> now]
    IN  Return(Submitted(sender, value, id, record, event), <<>>)

\* Mutant: any caller can request the result.
FHE_requestAssessmentResult_anyone(sender, assessmentId) ==
    LET assessment == assessmentAt(assessmentId) IN
    IF assessment.resultRequested THEN Revert("Result already requested")
    ELSE Return([Storage EXCEPT
                   !.assessments = Put(assessments, assessmentId,
                        [assessment EXCEPT !.resultRequested = TRUE]),
                   !.events = Append(events,
                        [name |-> "ResultRequested", user |-> sender,
                         assessmentId |-> assessmentId])],
                <<>>)

\* Mutant: the request is not announced.
FHE_requestAssessmentResult_silent(sender, assessmentId) ==
    LET assessment == assessmentAt(assessmentId) IN
    IF ~isSubmitter(assessment, sender) THEN Revert("Not your assessment")
    ELSE IF assessment.resultRequested THEN Revert("Result already requested")
    ELSE Return([Storage EXCEPT
                   !.assessments = Put(assessments, assessmentId,
                        [assessment EXCEPT !.resultRequested = TRUE])],
                <<>>)

\* Mutant: the request also files the id in the caller's list once more.
FHE_requestAssessmentResult_indexed(sender, assessmentId) ==
    LET assessment == assessmentAt(assessmentId) IN
    IF ~isSubmitter(assessment, sender) THEN Revert("Not your assessment")
    ELSE IF assessment.resultRequested THEN Revert("Result already requested")
    ELSE Return([Storage EXCEPT
                   !.assessments = Put(assessments, assessmentId,
                        [assessment EXCEPT !.resultRequested = TRUE]),
                   !.userAssessments = pushAssessment(sender, assessmentId),
                   !.events = Append(events,
                        [name |-> "ResultRequested", user |-> sender,
                         assessmentId |-> assessmentId])],
                <<>>)

FHE_requestAssessmentResult(sender, assessmentId) ==
    LET assessment == assessmentAt(assessmentId) IN
    IF ~isSubmitter(assessment, sender) THEN Revert("Not your assessment")
    ELSE IF assessment.resultRequested THEN Revert("Result already requested")
    ELSE Return([Storage EXCEPT
                   !.assessments = Put(assessments, assessmentId,
                        [assessment EXCEPT !.resultRequested = TRUE]),
                   !.events = Append(events,
                        [name |-> "ResultRequested", user |-> sender,
                         assessmentId |-> assessmentId])],
                <<>>)

\* The value the mocked decryption returns.
FHE_mockDecrypt(encryptedScore) == 85

\* Mutant: the request is checked before the caller.
FHE_getDecryptedCareerGuidance_requestFirst(sender, assessmentId) ==
    LET assessment == assessmentAt(assessmentId) IN
    IF ~assessment.resultRequested THEN Revert("Result not requested yet")
    ELSE IF ~isSubmitter(assessment, sender) THEN Revert("Not authorized")
    ELSE Return(Storage, FHE_mockDecrypt(assessment.guidanceScore))

\* Mutant: the result can be read without a request.
FHE_getDecryptedCareerGuidance_noRequest(sender, assessmentId) ==
    LET assessment == assessmentAt(assessmentId) IN
    IF ~isSubmitter(assessment, sender) THEN Revert("Not authorized")
    ELSE Return(Storage, FHE_mockDecrypt(assessment.guidanceScore))

FHE_getDecryptedCareerGuidance(sender, assessmentId) ==
    LET assessment == assessmentAt(assessmentId) IN
    IF ~isSubmitter(assessment, sender) THEN Revert("Not authorized")
    ELSE IF ~assessment.resultRequested THEN Revert("Result not requested yet")
    ELSE Return(Storage, FHE_mockDecrypt(assessment.guidanceScore))

FHE_getEncryptedCareerGuidance(sender, assessmentId) ==
    LET assessment == assessmentAt(assessmentId) IN
    IF ~isSubmitter(assessment, sender) THEN Revert("Not authorized")
    ELSE Return(Storage, assessment.guidanceScore)

\* Mutant: the modifier lets every caller through.
onlyOwner_anyone(sender) == TRUE

\* Ownable.onlyOwner
onlyOwner(sender) == sender = owner

\* Ownable._transferOwnership: the owner is replaced and the change logged.
Ownable_transferOwnershipTo(newOwner) ==
    [Storage EXCEPT !.owner = newOwner,
                    !.events = Append(events,
                         [name |-> "OwnershipTransferred", previousOwner |-> owner,
                          newOwner |-> newOwner])]

\* Ownable.transferOwnership(newOwner), inherited by CareerPlanningFHE and
\* CareerPlanningWithPapers.
Ownable_transferOwnership(sender, newOwner) ==
    IF ~onlyOwner(sender) THEN Revert("OwnableUnauthorizedAccount")
    ELSE IF newOwner = ZeroAddress THEN Revert("OwnableInvalidOwner")
    ELSE Return(Ownable_transferOwnershipTo(newOwner), <<>>)

\* Ownable.renounceOwnership(): the contract is left without an owner.
Ownable_renounceOwnership(sender) ==
    IF ~onlyOwner(sender) THEN Revert("OwnableUnauthorizedAccount")
    ELSE Return(Ownable_transferOwnershipTo(ZeroAddress), <<>>)

\* payable(owner()).transfer(...): who a withdrawal pays.
Ownable_withdrawPayee(sender) == owner

FHE_withdraw(sender) ==
    IF ~onlyOwner(sender) THEN Revert("OwnableUnauthorizedAccount")
    ELSE Return([Storage EXCEPT !.balance = 0], <<>>)

----------------------------------------------------------------------------
(* CareerPlanningWithPapers *)

\* Mutant: every caller can add a paper.
Papers_addPaper_anyone(sender, now, title, description, authors) ==
    LET id == paperCounter + 1
        paper == [id |-> id, title |-> title, description |-> description,
                  authors |-> authors, isActive |-> TRUE, createdAt |-> now]
    IN  Return([Storage EXCEPT
                  !.paperCounter = id,
                  !.papers = Put(papers, id, paper),
                  !.events = Append(events,
                       [name |-> "PaperAdded", paperId |-> id, title |-> title])],
               <<>>)

Papers_addPaper(sender, now, title, description, authors) ==
    IF ~onlyOwner(sender) THEN Revert("OwnableUnauthorizedAccount")
    ELSE
    LET id == paperCounter + 1
        paper == [id |-> id, title |-> title, description |-> description,
                  authors |-> authors, isActive |-> TRUE, createdAt |-> now]
    IN  Return([Storage EXCEPT
                  !.paperCounter = id,
                  !.papers = Put(papers, id, paper),
                  !.events = Append(events,
                       [name |-> "PaperAdded", paperId |-> id, title |-> title])],
               <<>>)

\* Mutant: the skill bonus is 25.
Papers_guidanceScore_skill25(encryptedCareerGoal, encryptedSkillLevel, encryptedEducationPriority) ==
    LET s1 == checkedAddUint8(50, IF encryptedCareerGoal > 0 THEN 15 ELSE 0)
        s2 == checkedAddUint8(s1.value, IF encryptedSkillLevel > 0 THEN 25 ELSE 0)
        s3 == checkedAddUint8(s2.value,
                              IF encryptedEducationPriority > 0 THEN 15 ELSE 0)
    IN  [panic |-> s1.panic \/ s2.panic \/ s3.panic, value |-> s3.value]

\* uint8 score = 50 + (g > 0 ? 15 : 0) + (s > 0 ? 20 : 0) + (e > 0 ? 15 : 0)
Papers_guidanceScore(encryptedCareerGoal, encryptedSkillLevel, encryptedEducationPriority) ==
    LET s1 == checkedAddUint8(50, IF encryptedCareerGoal > 0 THEN 15 ELSE 0)
        s2 == checkedAddUint8(s1.value, IF encryptedSkillLevel > 0 THEN 20 ELSE 0)
        s3 == checkedAddUint8(s2.value,
                              IF encryptedEducationPriority > 0 THEN 15 ELSE 0)
    IN  [panic |-> s1.panic \/ s2.panic \/ s3.panic, value |-> s3.value]

Papers_submitCareerAssessment(sender, value, now, paperId, encryptedCareerGoal, encryptedSkillLevel, encryptedEducationPriority) ==
    IF ~feeIsPaid(value) THEN Revert("Minimum fee required")
    ELSE IF ~paperAt(paperId).isActive THEN Revert("Paper not found or inactive")
    ELSE
    LET id == nextAssessmentId
        score == Papers_guidanceScore(encryptedCareerGoal, encryptedSkillLevel,
                                      encryptedEducationPriority)
        record == [user |-> sender, selectedPaperId |-> paperId,
                   encryptedCareerGoal |-> encryptedCareerGoal,
                   encryptedSkillLevel |-> encryptedSkillLevel,
                   encryptedEducationPriority |-> encryptedEducationPriority,
                   timestamp |-> now, guidanceScore |-> score.value]
        event == [name |-> "AssessmentSubmitted", user |-> sender,
                  assessmentId |-> id, paperId |-> paperId, timestamp |-> now]
    IN  IF score.panic THEN Revert("Panic(0x11)")
        ELSE Return(Submitted(sender, value, id, record, event), <<>>)

Papers_getAssessment(sender, assessmentId) ==
    LET assessment == assessmentAt(assessmentId) IN
    IF ~isSubmitter(assessment, sender) THEN Revert("Not authorized")
    ELSE Return(Storage, <<assessment.user, assessment.selectedPaperId,
                           assessment.timestamp, assessment.guidanceScore>>)

\* getPaper(_paperId): the members of papers[_paperId] but createdAt.
Papers_getPaper(paperId) ==
    LET paper == paperAt(paperId) IN
    Return(Storage, <<paper.id, paper.title, paper.description, paper.authors,
                      paper.isActive>>)

\* The ids among 1 .. n whose paper is active, in the order of the loop.
RECURSIVE activeUpTo(_)
activeUpTo(n) ==
    IF n = 0 THEN <<>>
    ELSE IF paperAt(n).isActive THEN Append(activeUpTo(n - 1), n)
    ELSE activeUpTo(n - 1)

\* Mutant: the loop stops one paper short.
Papers_getActivePapers_short == Return(Storage, activeUpTo(paperCounter - 1))

Papers_getActivePapers == Return(Storage, activeUpTo(paperCounter))

Papers_getPaperCount == paperCounter

Papers_withdraw(sender) ==
    IF ~onlyOwner(sender) THEN Revert("OwnableUnauthorizedAccount")
    ELSE Return([Storage EXCEPT !.balance = 0], <<>>)

----------------------------------------------------------------------------
(* server.js: the static file server. *)

\* Segments: "" (between two slashes), "." and "..", split at their dots.
EmptySegment == <<"">>
Dot == <<"", "">>
DotDot == <<"", "", "">>

\* __dirname: the directory of server.js, /srv/app in the model.
dirname == <<EmptySegment, <<"srv">>, <<"app">>>>

\* The relative path 'index.html' and the URL '/', split at the slashes.
IndexHtml == <<<<"index", "html">>>>
Slash == <<EmptySegment, EmptySegment>>

\* The files and directories of the machine, each by its segments from the
\* file-system root: the server's directory holds index.html, app.js,
\* data.bin, README and public/style.css; /srv/secret.env and /etc/passwd
\* lie outside it.
Directories ==
    {<<>>, <<<<"srv">>>>, <<<<"srv">>, <<"app">>>>,
     <<<<"srv">>, <<"app">>, <<"public">>>>, <<<<"etc">>>>}
Files ==
    {<<<<"srv">>, <<"app">>, <<"index", "html">>>>,
     <<<<"srv">>, <<"app">>, <<"app", "js">>>>,
     <<<<"srv">>, <<"app">>, <<"data", "bin">>>>,
     <<<<"srv">>, <<"app">>, <<"README">>>>,
     <<<<"srv">>, <<"app">>, <<"public">>, <<"style", "css">>>>,
     <<<<"srv">>, <<"secret", "env">>>>,
     <<<<"etc">>, <<"passwd">>>>}

\* path.normalize of an absolute path: empty and "." segments are dropped
\* and ".." removes the segment before it, if there is one.
RECURSIVE normalizeInto(_, _)
normalizeInto(done, segments) ==
    IF segments = <<>> THEN done
    ELSE LET segment == Head(segments) IN
         IF segment = EmptySegment \/ segment = Dot
         THEN normalizeInto(done, Tail(segments))
         ELSE IF segment = DotDot
         THEN normalizeInto(IF done = <<>> THEN <<>>
                            ELSE SubSeq(done, 1, Len(done) - 1), Tail(segments))
         ELSE normalizeInto(Append(done, segment), Tail(segments))

\* path.join(dir, path): normalize(dir + '/' + path); a trailing slash is
\* kept.
join(dir, path) ==
    [segments |-> normalizeInto(<<>>, dir \o path),
     trailingSlash |-> path[Len(path)] = EmptySegment]

\* fs.existsSync: a path with a trailing slash exists only as a directory.
existsSync(path) ==
    \/ path.segments \in Directories
    \/ path.segments \in Files /\ ~path.trailingSlash

\* fs.readFileSync: the content of a file; a directory throws EISDIR.
readFileSync(path) ==
    IF path.segments \in Files
    THEN [threw |-> FALSE, content |-> <<"content of", path.segments>>, message |-> ""]
    ELSE [threw |-> TRUE, content |-> <<>>,
          message |-> "EISDIR: illegal operation on a directory, read"]

\* path.extname: <<>> for '', <<part>> for '.' followed by part.  The
\* extension starts at the last dot of the last segment, unless that dot is
\* the first character of the segment or the segment is "..".
extname(path) ==
    LET base == IF path.segments = <<>> THEN EmptySegment
                ELSE path.segments[Len(path.segments)]
        n == Len(base)
    IN  IF n = 1 \/ base = DotDot \/ (n = 2 /\ base[1] = "") THEN <<>>
        ELSE <<base[n]>>

\* The table of content types; the key "html" is for '.html'.
mimeTypes ==
    [ext \in {"html", "js", "css", "json", "png", "jpg", "gif", "svg", "wav",
              "mp4", "woff", "ttf", "eot", "otf", "wasm"} |->
        CASE ext = "html" -> "text/html"
          [] ext = "js" -> "text/javascript"
          [] ext = "css" -> "text/css"
          [] ext = "json" -> "application/json"
          [] ext = "png" -> "image/png"
          [] ext = "jpg" -> "image/jpg"
          [] ext = "gif" -> "image/gif"
          [] ext = "svg" -> "image/svg+xml"
          [] ext = "wav" -> "audio/wav"
          [] ext = "mp4" -> "video/mp4"
          [] ext = "woff" -> "application/font-woff"
          [] ext = "ttf" -> "application/font-ttf"
          [] ext = "eot" -> "application/vnd.ms-fontobject"
          [] ext = "otf" -> "application/font-otf"
          [] ext = "wasm" -> "application/wasm"]

\* mimeTypes[ext] || 'application/octet-stream'
contentTypeOf(ext) ==
    IF ext # <<>> /\ ext[1] \in DOMAIN mimeTypes THEN mimeTypes[ext[1]]
    ELSE "application/octet-stream"

\* The response before the listener runs, with no file-system call made.
NewResponse ==
    [headers |-> [name \in {} |-> ""], statusCode |-> 200, heads |-> 0,
     ends |-> 0, body |-> <<>>, fsCalls |-> <<>>]

\* res.setHeader, res.writeHead and res.end.
setHeader(res, name, value) == [res EXCEPT !.headers = Put(@, name, value)]
writeHead(res, statusCode) == [res EXCEPT !.statusCode = statusCode, !.heads = @ + 1]
end(res, body) == [res EXCEPT !.body = body, !.ends = @ + 1]

\* The listener has passed a path to a function of fs.
fsCall(res, fn, path) == [res EXCEPT !.fsCalls = Append(@, [fn |-> fn, path |-> path])]

\* The three headers set to enable CORS.
enableCORS(res) ==
    setHeader(setHeader(setHeader(res,
        "Access-Control-Allow-Origin", "*"),
        "Access-Control-Allow-Methods", "GET, POST, OPTIONS"),
        "Access-Control-Allow-Headers", "Content-Type")

\* The listener from the join on: the file is looked up, read and sent.
serveFile(res, req) ==
    LET filePath == join(dirname, IF req.url = Slash THEN IndexHtml ELSE req.url)
        looked == fsCall(res, "existsSync", filePath)
    IN  IF ~existsSync(filePath)
        THEN end(writeHead(looked, 404), <<"File not found">>)
        ELSE LET tried == fsCall(looked, "readFileSync", filePath)
                 read == readFileSync(filePath)
                 contentType == contentTypeOf(extname(filePath))
             IN  IF read.threw
                 THEN end(writeHead(tried, 500), <<"Server error: ", read.message>>)
                 ELSE end(writeHead(setHeader(setHeader(tried,
                              "Content-Type", contentType),
                              "Cache-Control", "no-cache"), 200),
                          read.content)

\* Mutant: the answer to OPTIONS does not return from the listener.
requestListener_fallThrough(req) ==
    IF req.method = "OPTIONS"
    THEN serveFile(end(writeHead(enableCORS(NewResponse), 200), <<>>), req)
    ELSE serveFile(enableCORS(NewResponse), req)

\* createServer((req, res) => ...)
requestListener(req) ==
    IF req.method = "OPTIONS"
    THEN end(writeHead(enableCORS(NewResponse), 200), <<>>)
    ELSE serveFile(enableCORS(NewResponse), req)

----------------------------------------------------------------------------
(* The inputs the calls are drawn from. *)

Payments == {MIN_FEE - 1, MIN_FEE}
Nonces == {12345}
Bytes32 == {<<"0xaa">>}
Timestamps == {1, 2}
Strings == {"FHE"}
\* Every assigned id, and on either side of them one that is not.
AssessmentIds == 0 .. (assessmentCounter + 1)
PaperIds == 0 .. (paperCounter + 1)
MaxBalance == MIN_FEE

\* The signals the ledger specification submits (the tests' two) and the
\* ones the scoring specification submits (all of them).
SubmitTriples == {<<TRUE, FALSE, TRUE>>}
SubmitUints == {<<1, 0, 1>>}
UintTriples == {0, 1} \X {0, 1} \X {0, 1}
SubmitBytes == {<<"0xaa">>}
ScoreSenders == {"user1"}
SubmitSenders == {"user1", "user2"}

\* block.timestamp of the next transaction: time does not run backwards.
BlockTimes ==
    {t \in Timestamps :
        /\ \A i \in DOMAIN assessments : assessments[i].timestamp <= t
        /\ \A i \in DOMAIN papers : papers[i].createdAt <= t}

----------------------------------------------------------------------------
(* The state machine. *)

\* The contracts whose records hold a score, and a request flag.
HasScore == contract \in {"CareerPlanningContract", "CareerPlanningFHE",
                          "CareerPlanningWithPapers"}
HasReveal == contract \in {"CareerPlanningContract", "CareerPlanningFHE"}
\* The contracts that are Ownable.
IsOwnable == contract \in {"CareerPlanningFHE", "CareerPlanningWithPapers"}

Init ==
    /\ contract \in Contracts
    /\ owner = Deployer
    /\ assessmentCounter = 0
    /\ assessments = <<>>
    /\ userAssessments = [a \in Addresses |-> <<>>]
    /\ papers = <<>>
    /\ paperCounter = 0
    /\ balance = 0
    /\ events = IF IsOwnable
                THEN <<[name |-> "OwnershipTransferred", previousOwner |-> ZeroAddress,
                        newOwner |-> Deployer]>>
                ELSE <<>>
    /\ last = [op |-> "constructor", err |-> ""]
    /\ served = <<>>

\* The transaction op ended with outcome r: its storage is committed and its
\* receipt is the latest one.
Commit(op, r) ==
    /\ owner' = r.st.owner
    /\ assessmentCounter' = r.st.assessmentCounter
    /\ assessments' = r.st.assessments
    /\ userAssessments' = r.st.userAssessments
    /\ papers' = r.st.papers
    /\ paperCounter' = r.st.paperCounter
    /\ balance' = r.st.balance
    /\ events' = r.st.events
    /\ last' = [op |-> op, err |-> r.err]
    /\ UNCHANGED <<contract, served>>

\* A submit is a transaction; the model stops counting assessments at max.
Submit(max, r) ==
    /\ r.st.assessmentCounter <= max
    /\ Commit("submitCareerAssessment", r)

\* The changes of owner the log holds, the constructor's apart.
OwnershipChanges(log) ==
    Len(SelectSeq(log, LAMBDA e : e.name = "OwnershipTransferred")) - 1

\* A call of Ownable is a transaction; the model stops at max changes of
\* owner.
ChangeOwner(max, op, r) ==
    /\ OwnershipChanges(r.st.events) <= max
    /\ Commit(op, r)

\* A view function is called off chain: it leaves no receipt and no change.
Call(r) ==
    /\ r.st = Storage
    /\ UNCHANGED vars

ContractSubmit(max, senders, triples) ==
    /\ contract = "CareerPlanningContract"
    /\ \E sender \in senders, value \in Payments, now \in BlockTimes,
          t \in triples, nonce \in Nonces :
         Submit(max, Contract_submitCareerAssessment(sender, value, now,
                                                t[1], t[2], t[3], nonce))

ContractRequest ==
    /\ contract = "CareerPlanningContract"
    /\ \E sender \in Addresses, id \in AssessmentIds :
         Commit("requestAssessmentResult",
                Contract_requestAssessmentResult(sender, id))

ContractGetGuidance ==
    /\ contract = "CareerPlanningContract"
    /\ \E sender \in Callers, id \in AssessmentIds :
         Call(Contract_getCareerGuidance(sender, id))

ContractWithdraw ==
    /\ contract = "CareerPlanningContract"
    /\ \E sender \in Addresses, origin \in Addresses :
         Commit("withdraw", Contract_withdraw(sender, origin))

SimpleSubmit(max, senders) ==
    /\ contract = "CareerPlanningSimple"
    /\ \E sender \in senders, value \in Payments, now \in BlockTimes,
          paper \in Bytes32, g \in SubmitBytes, s \in SubmitBytes,
          e \in SubmitBytes :
         Submit(max, Simple_submitCareerAssessment(sender, value, now, paper, g, s, e))

SimpleWithdraw ==
    /\ contract = "CareerPlanningSimple"
    /\ \E sender \in Addresses \cup {SimpleDeployer} :
         Commit("withdraw", Simple_withdraw(sender))

FHESubmit(max, senders, triples) ==
    /\ contract = "CareerPlanningFHE"
    /\ \E sender \in senders, value \in Payments, now \in BlockTimes,
          t \in triples :
         Submit(max, FHE_submitCareerAssessment(sender, value, now, t[1], t[2], t[3]))

FHERequest ==
    /\ contract = "CareerPlanningFHE"
    /\ \E sender \in Addresses, id \in AssessmentIds :
         Commit("requestAssessmentResult", FHE_requestAssessmentResult(sender, id))

FHEGetDecrypted ==
    /\ contract = "CareerPlanningFHE"
    /\ \E sender \in Callers, id \in AssessmentIds :
         Call(FHE_getDecryptedCareerGuidance(sender, id))

FHEWithdraw ==
    /\ contract = "CareerPlanningFHE"
    /\ \E sender \in Addresses : Commit("withdraw", FHE_withdraw(sender))

\* addPaper by any caller, while there are fewer than max papers.
PapersAddPaperUpTo(max) ==
    /\ contract = "CareerPlanningWithPapers"
    /\ paperCounter < max
    /\ \E sender \in Addresses, now \in BlockTimes, title \in Strings :
         Commit("addPaper", Papers_addPaper(sender, now, title, title, title))

PapersAddPaper == PapersAddPaperUpTo(MaxPapers)

PapersSubmit(max, senders, triples) ==
    /\ contract = "CareerPlanningWithPapers"
    /\ \E sender \in senders, value \in Payments, now \in BlockTimes,
          paper \in PaperIds, t \in triples :
         Submit(max, Papers_submitCareerAssessment(sender, value, now, paper,
                                              t[1], t[2], t[3]))

PapersGetAssessment ==
    /\ contract = "CareerPlanningWithPapers"
    /\ \E sender \in Callers, id \in AssessmentIds :
         Call(Papers_getAssessment(sender, id))

PapersWithdraw ==
    /\ contract = "CareerPlanningWithPapers"
    /\ \E sender \in Addresses : Commit("withdraw", Papers_withdraw(sender))

IsResultRequested ==
    /\ HasReveal
    /\ \E id \in AssessmentIds : Call(isResultRequested(id))

GetAssessmentTimestamp ==
    /\ HasReveal
    /\ \E sender \in Callers, id \in AssessmentIds :
         Call(getAssessmentTimestamp(sender, id))

GetAssessmentInfo ==
    /\ HasReveal
    /\ \E id \in AssessmentIds : Call(getAssessmentInfo(id))

AssessmentsGetter ==
    \E id \in AssessmentIds : Call(assessmentsGetter(id))

SimpleGetAssessment ==
    /\ contract = "CareerPlanningSimple"
    /\ \E id \in AssessmentIds : Call(Simple_getAssessment(id))

PapersGetPaper ==
    /\ contract = "CareerPlanningWithPapers"
    /\ \E id \in PaperIds : Call(Papers_getPaper(id))

PapersGetActivePapers ==
    /\ contract = "CareerPlanningWithPapers"
    /\ Call(Papers_getActivePapers)

\* The accounts ownership is offered to.
NewOwners == {"user1", ZeroAddress}

TransferOwnership(max) ==
    /\ IsOwnable
    /\ \E sender \in Addresses, newOwner \in NewOwners :
         ChangeOwner(max, "transferOwnership",
                     Ownable_transferOwnership(sender, newOwner))

RenounceOwnership(max) ==
    /\ IsOwnable
    /\ \E sender \in Addresses :
         ChangeOwner(max, "renounceOwnership", Ownable_renounceOwnership(sender))

\* The reads of a record or of the papers: open to every caller or gated on
\* the caller.
ReadRecord ==
    \/ IsResultRequested \/ GetAssessmentTimestamp \/ GetAssessmentInfo
    \/ AssessmentsGetter \/ SimpleGetAssessment
    \/ PapersGetPaper \/ PapersGetActivePapers

\* A plain transfer of ether to the contract.
Receive ==
    \E value \in {MIN_FEE} :
         /\ balance + value <= MaxBalance
         /\ Commit("receive", receive(value))

\* The requests sent to the server: the methods, and the URLs '/',
\* '/index.html', '/app.js', '/data.bin', '/README', '/public',
\* '/public/', '/public/style.css', '/index.html/', '/missing.html',
\* '/public/../index.html', '/.', '/..', '/../secret.env',
\* '/../app/index.html' and '/../../etc/passwd', split at the slashes.
Methods == {"GET", "POST", "OPTIONS"}
Urls ==
    {Slash,
     <<EmptySegment, <<"index", "html">>>>,
     <<EmptySegment, <<"app", "js">>>>,
     <<EmptySegment, <<"data", "bin">>>>,
     <<EmptySegment, <<"README">>>>,
     <<EmptySegment, <<"public">>>>,
     <<EmptySegment, <<"public">>, EmptySegment>>,
     <<EmptySegment, <<"public">>, <<"style", "css">>>>,
     <<EmptySegment, <<"index", "html">>, EmptySegment>>,
     <<EmptySegment, <<"missing", "html">>>>,
     <<EmptySegment, <<"public">>, DotDot, <<"index", "html">>>>,
     <<EmptySegment, Dot>>,
     <<EmptySegment, DotDot>>,
     <<EmptySegment, DotDot, <<"secret", "env">>>>,
     <<EmptySegment, DotDot, <<"app">>, <<"index", "html">>>>,
     <<EmptySegment, DotDot, DotDot, <<"etc">>, <<"passwd">>>>}
Requests == [method : Methods, url : Urls]

\* The server answers a request: the listener runs to its end.
HandleRequest ==
    /\ Len(served) < MaxRequests
    /\ \E req \in Requests :
          served' = Append(served, [request |-> req, response |-> requestListener(req)])
    /\ UNCHANGED <<contract, owner, assessmentCounter, assessments, userAssessments,
                   papers, paperCounter, balance, events, last>>

\* The ledger: every operation, the tests' signals.
Next ==
    \/ ContractSubmit(MaxAssessments, SubmitSenders, SubmitTriples)
    \/ ContractRequest \/ ContractGetGuidance \/ ContractWithdraw
    \/ SimpleSubmit(MaxAssessments, SubmitSenders) \/ SimpleWithdraw
    \/ FHESubmit(MaxAssessments, SubmitSenders, SubmitTriples)
    \/ FHERequest \/ FHEGetDecrypted \/ FHEWithdraw
    \/ PapersAddPaper \/ PapersSubmit(MaxAssessments, SubmitSenders, SubmitUints)
    \/ PapersGetAssessment \/ PapersWithdraw
    \/ ReadRecord \/ Receive

Spec == Init /\ [][Next]_vars

\* The scoring: every operation, every combination of signals.
NextScore ==
    \/ ContractSubmit(MaxScored, ScoreSenders, Triples)
    \/ ContractRequest \/ ContractGetGuidance \/ ContractWithdraw
    \/ SimpleSubmit(MaxScored, ScoreSenders) \/ SimpleWithdraw
    \/ FHESubmit(MaxScored, ScoreSenders, Triples)
    \/ FHERequest \/ FHEGetDecrypted \/ FHEWithdraw
    \/ PapersAddPaper \/ PapersSubmit(MaxScored, ScoreSenders, UintTriples)
    \/ PapersGetAssessment \/ PapersWithdraw
    \/ ReadRecord \/ Receive

SpecScore == Init /\ [][NextScore]_vars

\* The submissions: longer interleavings of submitters, no reveal requests.
NextSubmit ==
    \/ ContractSubmit(MaxSubmissions, SubmitSenders, SubmitTriples)
    \/ ContractGetGuidance \/ ContractWithdraw
    \/ SimpleSubmit(MaxSubmissions, SubmitSenders) \/ SimpleWithdraw
    \/ FHESubmit(MaxSubmissions, SubmitSenders, SubmitTriples)
    \/ FHEGetDecrypted \/ FHEWithdraw
    \/ PapersAddPaper \/ PapersSubmit(MaxSubmissions, SubmitSenders, SubmitUints)
    \/ PapersGetAssessment \/ PapersWithdraw
    \/ ReadRecord \/ Receive

SpecSubmit == Init /\ [][NextSubmit]_vars

\* The papers: CareerPlanningWithPapers alone, with a longer list of papers
\* and changes of owner.
InitPapers == Init /\ contract = "CareerPlanningWithPapers"

NextPapers ==
    \/ PapersAddPaperUpTo(MaxCatalogue)
    \/ PapersSubmit(MaxScored, ScoreSenders, SubmitUints)
    \/ PapersGetAssessment \/ PapersWithdraw
    \/ PapersGetPaper \/ PapersGetActivePapers
    \/ TransferOwnership(MaxTransfers) \/ RenounceOwnership(MaxTransfers)

SpecPapers == InitPapers /\ [][NextPapers]_vars

\* The ownership: the two Ownable contracts, with changes of owner.
InitOwnable == Init /\ IsOwnable

NextOwnable ==
    \/ FHESubmit(MaxScored, ScoreSenders, SubmitTriples) \/ FHEWithdraw
    \/ PapersAddPaper \/ PapersSubmit(MaxScored, ScoreSenders, SubmitUints)
    \/ PapersWithdraw
    \/ TransferOwnership(MaxTransfers) \/ RenounceOwnership(MaxTransfers)
    \/ Receive

SpecOwnable == InitOwnable /\ [][NextOwnable]_vars

\* The static server, beside a deployed CareerPlanningContract.
InitServer == Init /\ contract = "CareerPlanningContract"

NextServer == HandleRequest

SpecServer == InitServer /\ [][NextServer]_vars

----------------------------------------------------------------------------
(* What the claims quantify over: inputs beyond the ones the actions draw. *)

LowPayments == {0, MIN_FEE \div 2, MIN_FEE - 1}
\* Signals that take each input both ways.
BothWays == {<<TRUE, FALSE, TRUE>>, <<FALSE, TRUE, FALSE>>}
PaidAmounts == {MIN_FEE, 2 * MIN_FEE}
AnyNonces == {0, 12345}
AnyUints == {0, 1, 2, 255}
ActivePaperIds == {p \in DOMAIN papers : papers[p].isActive}
AnyUintTriples == AnyUints \X AnyUints \X AnyUints
AnyBytes == {<<"0xaa">>, <<"0xbb">>}
AnyPaperIds == 0 .. (MaxPapers + 1)

Bonus(flag, points) == IF flag THEN points ELSE 0

\* 50 + 15*goal + 20*skill + 15*education
ExpectedScore(goal, skill, education) ==
    50 + Bonus(goal, 15) + Bonus(skill, 20) + Bonus(education, 15)

\* The ids that have been assigned.
AssignedIds == 1 .. assessmentCounter


\* The record a successful submit has just stored.
NewRecord(r) == r.st.assessments[r.st.assessmentCounter]

----------------------------------------------------------------------------
(* C1.  A successful submit stores guidanceScore =                         *)
(* 50 + 15*goal + 20*skill + 15*education for the new assessment, in       *)
(* CareerPlanningContract (boolean signals) and in                         *)
(* CareerPlanningWithPapers (a signal is true iff its input is > 0),       *)
(* whatever the submitter, nonce, payment and prior state; and every       *)
(* stored score is the score of the signals stored with it.                *)

\* The time of some block that can be mined next.
SomeBlockTime == CHOOSE now \in BlockTimes : TRUE

\* Submitter, payment and nonce of the submits the score is checked for.
C1_Calls ==
    {<<"owner", MIN_FEE, 0>>, <<"user1", 2 * MIN_FEE, 12345>>,
     <<"user2", MIN_FEE, 12345>>, <<"user1", MIN_FEE, 0>>}

C1_ScoreIsTheFormula ==
    LET now == SomeBlockTime IN
    /\ contract = "CareerPlanningContract" =>
         /\ \A c \in C1_Calls, t \in Triples :
              LET r == Contract_submitCareerAssessment(c[1], c[2], now,
                                                       t[1], t[2], t[3], c[3])
              IN  /\ r.err = ""
                  /\ NewRecord(r).guidanceScore = ExpectedScore(t[1], t[2], t[3])
         /\ \A id \in AssignedIds :
              LET a == assessments[id]
              IN  a.guidanceScore =
                      ExpectedScore(a.careerGoalHash[2][2], a.skillLevelHash[2][2],
                                    a.educationPriorityHash[2][2])
    /\ contract = "CareerPlanningWithPapers" =>
         /\ \A c \in C1_Calls, paper \in ActivePaperIds, t \in UintTriples :
              LET r == Papers_submitCareerAssessment(c[1], c[2], now, paper,
                                                     t[1], t[2], t[3])
              IN  /\ r.err = ""
                  /\ NewRecord(r).guidanceScore =
                        ExpectedScore(t[1] > 0, t[2] > 0, t[3] > 0)
         /\ \A t \in AnyUintTriples :
              Papers_guidanceScore(t[1], t[2], t[3]) =
                  [panic |-> FALSE,
                   value |-> ExpectedScore(t[1] > 0, t[2] > 0, t[3] > 0)]
         /\ \A id \in AssignedIds :
              LET a == assessments[id]
              IN  a.guidanceScore =
                      ExpectedScore(a.encryptedCareerGoal > 0,
                                    a.encryptedSkillLevel > 0,
                                    a.encryptedEducationPriority > 0)

\* (true, false, true) was submitted and scored 80.
C1_Witness ==
    /\ contract = "CareerPlanningContract"
    /\ last = [op |-> "submitCareerAssessment", err |-> ""]
    /\ assessmentCounter = 1
    /\ assessments[1].careerGoalHash = keccak256(<<"user1", TRUE, 12345, "goal">>)
    /\ assessments[1].skillLevelHash = keccak256(<<"user1", FALSE, 12345, "skill">>)
    /\ assessments[1].educationPriorityHash =
           keccak256(<<"user1", TRUE, 12345, "education">>)
    /\ assessments[1].guidanceScore = 80

----------------------------------------------------------------------------
(* C2.  In every reachable state every stored assessment has a             *)
(* guidanceScore in [50,100], one of 50, 65, 70, 80, 85, 100.              *)

C2_ScoreInRange ==
    HasScore =>
        \A id \in AssignedIds :
            /\ assessments[id].guidanceScore \in {50, 65, 70, 80, 85, 100}
            /\ assessments[id].guidanceScore >= 50
            /\ assessments[id].guidanceScore <= 100

\* A score of 65 is still stored after a reveal request and a withdrawal.
C2_Witness ==
    /\ contract = "CareerPlanningContract"
    /\ assessmentCounter = 1
    /\ assessments[1].guidanceScore = 65
    /\ assessments[1].resultRequested
    /\ last = [op |-> "withdraw", err |-> ""]

----------------------------------------------------------------------------
(* C3.  In every contract a submit that pays less than MIN_FEE fails with  *)
(* "Minimum fee required" and changes nothing: no record, no index entry,  *)
(* the same counter.                                                       *)

C3_Rejected(r) ==
    /\ r.err = "Minimum fee required"
    /\ r.st = Storage
    /\ r.st.assessmentCounter = getAssessmentCount
    /\ DOMAIN r.st.assessments = DOMAIN assessments
    /\ \A a \in Addresses : r.st.userAssessments[a] = getUserAssessments(a)

C3_LowFeeRejected ==
    LET now == SomeBlockTime IN
    \A sender \in Addresses, value \in LowPayments :
        CASE contract = "CareerPlanningContract" ->
               \A t \in BothWays, nonce \in Nonces :
                  C3_Rejected(Contract_submitCareerAssessment(
                                  sender, value, now, t[1], t[2], t[3], nonce))
          [] contract = "CareerPlanningSimple" ->
               \A paper \in AnyBytes, g \in AnyBytes :
                  C3_Rejected(Simple_submitCareerAssessment(
                                  sender, value, now, paper, g, g, g))
          [] contract = "CareerPlanningFHE" ->
               \A t \in BothWays :
                  C3_Rejected(FHE_submitCareerAssessment(
                                  sender, value, now, t[1], t[2], t[3]))
          [] contract = "CareerPlanningWithPapers" ->
               \A paper \in AnyPaperIds, t \in {<<0, 0, 0>>, <<1, 0, 1>>} :
                  C3_Rejected(Papers_submitCareerAssessment(
                                  sender, value, now, paper, t[1], t[2], t[3]))

\* An underpaid submit was rejected on a ledger that holds a record.
C3_Witness ==
    /\ last = [op |-> "submitCareerAssessment", err |-> "Minimum fee required"]
    /\ assessmentCounter = 1
    /\ contract = "CareerPlanningSimple"

----------------------------------------------------------------------------
(* C4.  As claimed: in every contract a submit that pays at least MIN_FEE  *)
(* succeeds from any reachable state, for any caller and inputs, and       *)
(* creates exactly one record.  CareerPlanningWithPapers refuses a paid    *)
(* submit that names a paper that is not active.  As amended: the fee is   *)
(* the only precondition in CareerPlanningContract, CareerPlanningSimple   *)
(* and CareerPlanningFHE; in CareerPlanningWithPapers a paid submit        *)
(* succeeds iff the named paper is active, and otherwise fails with        *)
(* "Paper not found or inactive" and changes nothing.                      *)

\* The call succeeded and created exactly one record, sender's.
C4_Created(r, sender) ==
    /\ r.err = ""
    /\ r.st.assessmentCounter = assessmentCounter + 1
    /\ DOMAIN r.st.assessments = DOMAIN assessments \cup {assessmentCounter + 1}
    /\ \A id \in DOMAIN assessments : r.st.assessments[id] = assessments[id]
    /\ NewRecord(r).user = sender
    /\ r.st.userAssessments =
           [userAssessments EXCEPT ![sender] = Append(@, assessmentCounter + 1)]

\* A paid submit to one of the three contracts without papers.
C4_PaidSubmitCreates(sender, value, now) ==
    CASE contract = "CareerPlanningContract" ->
           \A t \in BothWays, nonce \in Nonces :
              C4_Created(Contract_submitCareerAssessment(
                             sender, value, now, t[1], t[2], t[3], nonce), sender)
      [] contract = "CareerPlanningSimple" ->
           \A paper \in AnyBytes, g \in AnyBytes :
              C4_Created(Simple_submitCareerAssessment(
                             sender, value, now, paper, g, g, g), sender)
      [] contract = "CareerPlanningFHE" ->
           \A t \in BothWays :
              C4_Created(FHE_submitCareerAssessment(
                             sender, value, now, t[1], t[2], t[3]), sender)
      [] OTHER -> TRUE

C4_Original_FeeIsTheOnlyPrecondition ==
    LET now == SomeBlockTime IN
    \A sender \in Addresses, value \in PaidAmounts :
        /\ C4_PaidSubmitCreates(sender, value, now)
        /\ contract = "CareerPlanningWithPapers" =>
             \A paper \in AnyPaperIds, t \in SubmitUints :
                C4_Created(Papers_submitCareerAssessment(
                               sender, value, now, paper, t[1], t[2], t[3]), sender)

C4_PaidSubmitNeedsActivePaper ==
    LET now == SomeBlockTime IN
    \A sender \in Addresses, value \in PaidAmounts :
        /\ C4_PaidSubmitCreates(sender, value, now)
        /\ contract = "CareerPlanningWithPapers" =>
             \A paper \in AnyPaperIds, t \in SubmitUints :
                LET r == Papers_submitCareerAssessment(
                             sender, value, now, paper, t[1], t[2], t[3])
                IN  IF paperAt(paper).isActive
                    THEN C4_Created(r, sender)
                    ELSE r.err = "Paper not found or inactive" /\ r.st = Storage

\* After a paid submit that named paper 1, one that names no active paper
\* was refused.
C4_Witness ==
    /\ contract = "CareerPlanningWithPapers"
    /\ assessmentCounter = 1
    /\ assessments[1].selectedPaperId = 1
    /\ last = [op |-> "submitCareerAssessment", err |-> "Paper not found or inactive"]

----------------------------------------------------------------------------
(* C5.  In every reachable state and for every address S,                  *)
(* getUserAssessments(S) is exactly the list of the ids of the assessments *)
(* whose user is S, in strictly increasing order and without duplicates,   *)
(* and getUserAssessmentCount(S) is its length: the number of successful   *)
(* submissions by S, and 0 for an address that never submitted.            *)

RECURSIVE IdsOf(_, _)
\* The ids in 1 .. n whose assessment was submitted by user, in increasing order.
IdsOf(user, n) ==
    IF n = 0 THEN <<>>
    ELSE IF assessments[n].user = user THEN Append(IdsOf(user, n - 1), n)
    ELSE IdsOf(user, n - 1)

\* The positions of the log at which user's successful submits are recorded.
SubmissionsBy(user) ==
    {i \in 1 .. Len(events) :
        events[i].name = "AssessmentSubmitted" /\ events[i].user = user}

C5_IndexIsTheSubmittersIds ==
    \A S \in Addresses :
        LET ids == getUserAssessments(S) IN
        /\ ids = IdsOf(S, assessmentCounter)
        /\ \A i \in 1 .. Len(ids) : \A j \in 1 .. Len(ids) : i < j => ids[i] < ids[j]
        /\ getUserAssessmentCount(S) = Len(ids)
        /\ getUserAssessmentCount(S) = Cardinality(SubmissionsBy(S))

\* user1 submitted twice, and the owner never did.
C5_Witness ==
    /\ getUserAssessments("user1") = <<1, 2>>
    /\ getUserAssessmentCount("user1") = 2
    /\ getUserAssessments("owner") = <<>>
    /\ getUserAssessments("user2") = <<>>

----------------------------------------------------------------------------
(* C6.  For an existing assessment of CareerPlanningContract or            *)
(* CareerPlanningFHE: while resultRequested is false the submitter's       *)
(* requestAssessmentResult succeeds, sets resultRequested and emits one    *)
(* ResultRequested event; once it is true every further call by the        *)
(* submitter fails with "Result already requested", emits nothing and      *)
(* leaves resultRequested true, so exactly one event was ever emitted.     *)

C6_Request(sender, assessmentId) ==
    IF contract = "CareerPlanningContract"
    THEN Contract_requestAssessmentResult(sender, assessmentId)
    ELSE FHE_requestAssessmentResult(sender, assessmentId)

\* The positions of the log that record a result request for the id.
RequestsOf(assessmentId) ==
    {i \in 1 .. Len(events) :
        events[i].name = "ResultRequested" /\ events[i].assessmentId = assessmentId}

C6_SecondRequestRejected ==
    HasReveal =>
      \A id \in AssignedIds :
        LET a == assessments[id]
            r == C6_Request(a.user, id)
        IN  IF a.resultRequested
            THEN /\ r.err = "Result already requested"
                 /\ r.st = Storage
                 /\ Cardinality(RequestsOf(id)) = 1
            ELSE /\ r.err = ""
                 /\ r.st.assessments =
                        Put(assessments, id, [a EXCEPT !.resultRequested = TRUE])
                 /\ r.st.events = Append(events, [name |-> "ResultRequested",
                                                  user |-> a.user, assessmentId |-> id])
                 /\ Cardinality(RequestsOf(id)) = 0

\* The submitter's second request for assessment 1 has just been rejected.
C6_Witness ==
    /\ HasReveal
    /\ assessmentCounter >= 1
    /\ assessments[1].resultRequested
    /\ Cardinality(RequestsOf(1)) = 1
    /\ last = [op |-> "requestAssessmentResult", err |-> "Result already requested"]

----------------------------------------------------------------------------
(* C7.  For every existing assessment and every caller other than its      *)
(* user, requestAssessmentResult fails with "Not your assessment" and the  *)
(* reads of the guidance (getCareerGuidance, getDecryptedCareerGuidance,   *)
(* getEncryptedCareerGuidance) fail with "Not authorized", nothing         *)
(* changes, and this is so whether resultRequested is false or true.       *)

C7_Unauthorized(r, msg) == r.err = msg /\ r.st = Storage

C7_NonSubmitterRejected ==
    HasReveal =>
      \A id \in AssignedIds, sender \in Addresses :
        sender # assessments[id].user =>
          /\ C7_Unauthorized(C6_Request(sender, id), "Not your assessment")
          /\ contract = "CareerPlanningContract" =>
               C7_Unauthorized(Contract_getCareerGuidance(sender, id), "Not authorized")
          /\ contract = "CareerPlanningFHE" =>
               /\ C7_Unauthorized(FHE_getDecryptedCareerGuidance(sender, id), "Not authorized")
               /\ C7_Unauthorized(FHE_getEncryptedCareerGuidance(sender, id), "Not authorized")

\* A request was rejected as not the caller's while the result of
\* assessment 1 was already requested and that of assessment 2 was not.
C7_Witness ==
    /\ HasReveal
    /\ assessmentCounter = 2
    /\ assessments[1].user = assessments[2].user
    /\ assessments[1].resultRequested
    /\ ~assessments[2].resultRequested
    /\ last = [op |-> "requestAssessmentResult", err |-> "Not your assessment"]

----------------------------------------------------------------------------
(* C8.  In CareerPlanningFHE, getDecryptedCareerGuidance(id) called by the *)
(* assessment's user fails with "Result not requested yet" in every state  *)
(* in which that user has not successfully called                          *)
(* requestAssessmentResult(id), and succeeds in every state in which the   *)
(* user has; and no step makes it fail again once it has succeeded.        *)

\* The submitter's read of the assessment succeeds.
C8_Readable(id) ==
    /\ id \in AssignedIds
    /\ FHE_getDecryptedCareerGuidance(assessments[id].user, id).err = ""

\* The submitter has successfully requested the result of the assessment.
C8_Requested(id) ==
    \E i \in RequestsOf(id) : events[i].user = assessments[id].user

C8_ReadNeedsRequestState ==
    contract = "CareerPlanningFHE" =>
      \A id \in AssignedIds :
        LET r == FHE_getDecryptedCareerGuidance(assessments[id].user, id) IN
        /\ r.st = Storage
        /\ r.err = IF C8_Requested(id) THEN "" ELSE "Result not requested yet"

C8_ReadNeedsRequest ==
    /\ []C8_ReadNeedsRequestState
    /\ [][contract = "CareerPlanningFHE" =>
             \A id \in 1 .. MaxAssessments : C8_Readable(id) => C8_Readable(id)']_vars

\* Assessment 1 is readable after its request and a later withdrawal, and
\* assessment 2, never requested, is not.
C8_Witness ==
    /\ contract = "CareerPlanningFHE"
    /\ assessmentCounter = 2
    /\ C8_Readable(1)
    /\ ~C8_Readable(2)
    /\ balance = 0
    /\ last = [op |-> "withdraw", err |-> ""]

----------------------------------------------------------------------------
(* C9.  In CareerPlanningFHE, once the user has requested the result,      *)
(* getDecryptedCareerGuidance(id) returns the guidanceScore stored for id  *)
(* at submission, 50 + 15*goal + 20*skill + 15*education.                  *)
(* The function returns the constant of the mocked decryption instead.     *)

C9_ReadReturnsStoredScore ==
    contract = "CareerPlanningFHE" =>
      \A id \in AssignedIds :
        assessments[id].resultRequested =>
          LET r == FHE_getDecryptedCareerGuidance(assessments[id].user, id) IN
          r.err = "" /\ r.ret = assessments[id].guidanceScore

----------------------------------------------------------------------------
(* C10.  Whatever the interleaving of the submitters, the k-th successful  *)
(* submit is assigned id k; getAssessmentCount is the number of successful *)
(* submits, getUserAssessmentCount(X) the number of them made by X; and a  *)
(* failed submit consumes no id: the next successful one takes             *)
(* getAssessmentCount + 1.                                                 *)

\* The log restricted to the successful submits.
SubmittedEvents ==
    SelectSeq(events, LAMBDA e : e.name = "AssessmentSubmitted")

C10_IdsAreSubmissionOrder ==
    /\ getAssessmentCount = Len(SubmittedEvents)
    /\ \A k \in 1 .. Len(SubmittedEvents) :
          /\ SubmittedEvents[k].assessmentId = k
          /\ assessments[k].user = SubmittedEvents[k].user
    /\ \A X \in Addresses :
          getUserAssessmentCount(X) =
              Cardinality({k \in 1 .. Len(SubmittedEvents) : SubmittedEvents[k].user = X})
    /\ last.op = "submitCareerAssessment" /\ last.err # "" =>
          /\ Len(events) = 0 \/ events[Len(events)].name # "AssessmentSubmitted"
                             \/ events[Len(events)].assessmentId = assessmentCounter
          /\ nextAssessmentId = Len(SubmittedEvents) + 1

\* user1 submitted, then user2, then user1 again, and a submit that
\* followed was rejected: ids 1 and 3 are user1's, id 2 is user2's.
C10_Witness ==
    /\ getAssessmentCount = 3
    /\ getUserAssessments("user1") = <<1, 3>>
    /\ getUserAssessments("user2") = <<2>>
    /\ getUserAssessmentCount("user1") = 2
    /\ getUserAssessmentCount("user2") = 1
    /\ last = [op |-> "submitCareerAssessment", err |-> "Minimum fee required"]

----------------------------------------------------------------------------
(* C11.  Every rejected call leaves the ledger exactly as it was: a submit *)
(* that pays too little, a requestAssessmentResult by a caller that is not *)
(* the user, on an id never assigned or a second time, and a read by a     *)
(* caller that is not the user or before the request, change neither the   *)
(* counter, nor a stored assessment, nor an index, nor the balance, nor    *)
(* the log.                                                                *)

\* The call was rejected with the message and left the storage as it was.
C11_Rejected(r, msg) ==
    /\ r.err = msg
    /\ r.st = Storage
    /\ r.st.assessmentCounter = getAssessmentCount
    /\ r.st.balance = getContractBalance
    /\ r.st.events = events

\* A submit that pays too little, by any sender, for any paper.
C11_LowSubmit(sender, value, now) ==
    CASE contract = "CareerPlanningContract" ->
           C11_Rejected(Contract_submitCareerAssessment(
                            sender, value, now, TRUE, FALSE, TRUE, 12345),
                        "Minimum fee required")
      [] contract = "CareerPlanningSimple" ->
           \A b \in SubmitBytes :
              C11_Rejected(Simple_submitCareerAssessment(
                               sender, value, now, b, b, b, b),
                           "Minimum fee required")
      [] contract = "CareerPlanningFHE" ->
           C11_Rejected(FHE_submitCareerAssessment(
                            sender, value, now, TRUE, FALSE, TRUE),
                        "Minimum fee required")
      [] contract = "CareerPlanningWithPapers" ->
           \A paper \in PaperIds :
              C11_Rejected(Papers_submitCareerAssessment(
                               sender, value, now, paper, 1, 0, 1),
                           "Minimum fee required")

\* The guidance read of the contract at hand, for a caller and an id.
C11_Read(sender, id) ==
    IF contract = "CareerPlanningContract" THEN Contract_getCareerGuidance(sender, id)
    ELSE FHE_getDecryptedCareerGuidance(sender, id)

C11_RejectedCallsChangeNothing ==
    /\ \A sender \in Addresses :
          C11_LowSubmit(sender, MIN_FEE - 1, SomeBlockTime)
    /\ HasReveal =>
         \A sender \in Callers :
            /\ \A id \in AssessmentIds \ AssignedIds :
                  sender # ZeroAddress =>
                     C11_Rejected(C6_Request(sender, id), "Not your assessment")
            /\ \A id \in AssignedIds :
                  LET a == assessments[id] IN
                  /\ sender # a.user =>
                        /\ C11_Rejected(C6_Request(sender, id), "Not your assessment")
                        /\ C11_Rejected(C11_Read(sender, id), "Not authorized")
                  /\ sender = a.user /\ a.resultRequested =>
                        C11_Rejected(C6_Request(sender, id), "Result already requested")
                  /\ sender = a.user /\ ~a.resultRequested
                       /\ contract = "CareerPlanningFHE" =>
                        C11_Rejected(C11_Read(sender, id), "Result not requested yet")

\* A step whose receipt is a rejection changed nothing of the ledger.
C11_RejectedStep == last'.err # "" => Storage' = Storage

C11_NoPartialFailure ==
    /\ []C11_RejectedCallsChangeNothing
    /\ [][C11_RejectedStep]_vars

\* With an assessment stored, its fee held and its result requested, a
\* request by another caller has just been rejected.
C11_Witness ==
    /\ contract = "CareerPlanningFHE"
    /\ assessmentCounter = 1
    /\ assessments[1].resultRequested
    /\ balance = MIN_FEE
    /\ Len(events) = 3
    /\ last = [op |-> "requestAssessmentResult", err |-> "Not your assessment"]

----------------------------------------------------------------------------
(* C12.  As claimed: requestAssessmentResult on an id that was never       *)
(* assigned (0, or above the counter) fails with an error of its own, that *)
(* differs from the one a caller who is not the user of an existing        *)
(* assessment gets.  The contracts have no existence check.  As amended:   *)
(* on an id never assigned the call fails, for every caller, with "Not     *)
(* your assessment", the very error of a caller who is not the user,       *)
(* because the record of such an id has the zero address as user; nothing  *)
(* changes.                                                                *)

\* The ids a caller can name that were never assigned.
UnassignedIds == AssessmentIds \ AssignedIds

C12_Original_UnknownIdIsNotFound ==
    HasReveal =>
      \A sender \in Addresses, id \in UnassignedIds :
         LET r == C6_Request(sender, id) IN
         /\ r.err # ""
         /\ r.err # "Not your assessment"

C12_UnknownIdIsNotYours ==
    HasReveal =>
      /\ \A sender \in Addresses, id \in UnassignedIds :
            LET r == C6_Request(sender, id) IN
            /\ assessmentAt(id).user = ZeroAddress
            /\ r.err = "Not your assessment"
            /\ r.st = Storage
      /\ \A sender \in Addresses, id \in AssignedIds :
            sender # assessments[id].user =>
               C6_Request(sender, id).err = "Not your assessment"

\* Before any assessment exists a request has been rejected.
C12_Witness ==
    /\ HasReveal
    /\ assessmentCounter = 0
    /\ UnassignedIds = {0, 1}
    /\ last = [op |-> "requestAssessmentResult", err |-> "Not your assessment"]

----------------------------------------------------------------------------
(* C13.  Only its user can read the score of an assessment: for every      *)
(* existing assessment and every other caller, no read entry point         *)
(* (getCareerGuidance, getAssessment, getAssessmentInfo, the getter of the *)
(* public mapping assessments) returns a value that depends on the         *)
(* record's guidanceScore, so that two ledgers that differ in that score   *)
(* only look the same to that caller.  It is stated for the contracts that *)
(* store the score in the clear.                                           *)

\* The scores a record can hold.
Scores == {50, 65, 70, 80, 85, 100}

\* The record with another score in place of its own.
WithScore(assessment, score) == [assessment EXCEPT !.guidanceScore = score]

C13_OnlyTheUserReadsTheScore ==
    contract \in {"CareerPlanningContract", "CareerPlanningWithPapers"} =>
      \A id \in AssignedIds, sender \in Addresses :
        sender # assessments[id].user =>
          LET a == assessments[id] IN
          /\ contract = "CareerPlanningContract" =>
               /\ Contract_getCareerGuidance(sender, id).err # ""
               /\ getAssessmentTimestamp(sender, id).err # ""
               /\ isResultRequested(id).ret = a.resultRequested
               /\ \A score \in Scores :
                     assessmentInfo(WithScore(a, score)) = getAssessmentInfo(id).ret
          /\ contract = "CareerPlanningWithPapers" =>
               Papers_getAssessment(sender, id).err # ""
          /\ \A score \in Scores :
                assessmentMembers(WithScore(a, score)) = assessmentsGetter(id).ret

----------------------------------------------------------------------------
(* C14.  As claimed: the timestamp of an assessment can be read by its     *)
(* user only: getAssessmentTimestamp fails with "Not authorized" for every *)
(* other caller, and no other read entry point returns the timestamp to a  *)
(* caller who is not the user.  getAssessmentInfo and the getter of the    *)
(* public mapping return it to everyone.  As amended:                      *)
(* getAssessmentTimestamp returns the stored timestamp to the user and     *)
(* fails with "Not authorized", changing nothing, for every other caller;  *)
(* the timestamp is public all the same: getAssessmentInfo and the getter  *)
(* of assessments return it to any caller, and the AssessmentSubmitted     *)
(* event carries it.                                                       *)

\* The record with another timestamp in place of its own.
WithTimestamp(assessment, time) == [assessment EXCEPT !.timestamp = time]

C14_Original_OnlyTheUserReadsTheTimestamp ==
    HasReveal =>
      \A id \in AssignedIds, sender \in Addresses :
        sender # assessments[id].user =>
          LET a == assessments[id] IN
          /\ getAssessmentTimestamp(sender, id).err = "Not authorized"
          /\ \A time \in Timestamps :
                /\ assessmentInfo(WithTimestamp(a, time)) = getAssessmentInfo(id).ret
                /\ assessmentMembers(WithTimestamp(a, time)) = assessmentsGetter(id).ret

C14_TimestampGetterIsGated ==
    HasReveal =>
      \A id \in AssignedIds :
        LET a == assessments[id] IN
        /\ \A sender \in Addresses :
              LET r == getAssessmentTimestamp(sender, id) IN
              /\ r.st = Storage
              /\ IF sender = a.user THEN r.err = "" /\ r.ret = a.timestamp
                 ELSE r.err = "Not authorized"
        /\ getAssessmentInfo(id).err = ""
        /\ getAssessmentInfo(id).ret[2] = a.timestamp
        /\ assessmentsGetter(id).err = ""
        /\ assessmentsGetter(id).ret[5] = a.timestamp
        /\ a.timestamp \in Timestamps
        /\ SubmittedEvents[id].timestamp = a.timestamp

\* user1's assessment of time 2: user2 is refused its timestamp by
\* getAssessmentTimestamp and gets it from getAssessmentInfo.
C14_Witness ==
    /\ HasReveal
    /\ assessmentCounter = 1
    /\ assessments[1].user = "user1"
    /\ assessments[1].timestamp = 2
    /\ getAssessmentTimestamp("user2", 1).err = "Not authorized"
    /\ getAssessmentInfo(1).ret = <<"user1", 2, FALSE>>

----------------------------------------------------------------------------
(* C15.  getAssessmentCount is 0 on a freshly deployed contract, grows by  *)
(* exactly 1 on each successful submit, is left alone by every other       *)
(* operation and never decreases; in every reachable state the ids with a  *)
(* stored assessment (user # zero address) are exactly                     *)
(* 1 .. getAssessmentCount: id 0 is never assigned, and no id is assigned  *)
(* twice.                                                                  *)

\* The ids under which an assessment is stored.
StoredIds ==
    {id \in DOMAIN assessments \cup AssessmentIds :
        assessmentAt(id).user # ZeroAddress}

C15_DenseIds ==
    /\ last.op = "constructor" => getAssessmentCount = 0
    /\ StoredIds = 1 .. getAssessmentCount
    /\ assessmentAt(0) = ZeroAssessment

\* The last entry of a log, if it has one, is a successful submit's.
C15_EndsWithSubmit(log) ==
    /\ Len(log) > 0
    /\ log[Len(log)].name = "AssessmentSubmitted"

C15_CounterStep ==
    /\ getAssessmentCount' \in {getAssessmentCount, getAssessmentCount + 1}
    /\ getAssessmentCount' = getAssessmentCount + 1 <=>
          /\ Len(events') = Len(events) + 1
          /\ C15_EndsWithSubmit(events')
    /\ getAssessmentCount' = getAssessmentCount + 1 =>
          /\ last' = [op |-> "submitCareerAssessment", err |-> ""]
          /\ StoredIds' = StoredIds \cup {getAssessmentCount + 1}
          /\ getAssessmentCount + 1 \notin StoredIds
    /\ last'.op # "submitCareerAssessment" => getAssessmentCount' = getAssessmentCount

C15_CounterCountsSubmits ==
    /\ []C15_DenseIds
    /\ [][C15_CounterStep]_vars

\* Two assessments are stored, under ids 1 and 2, and the withdrawal that
\* followed left the counter at 2.
C15_Witness ==
    /\ getAssessmentCount = 2
    /\ StoredIds = {1, 2}
    /\ balance = 0
    /\ last = [op |-> "withdraw", err |-> ""]

----------------------------------------------------------------------------
(* C16.  Each successful submit emits exactly one AssessmentSubmitted      *)
(* event, with the caller, the new id and the timestamp stored in the new  *)
(* record; each successful requestAssessmentResult emits exactly one       *)
(* ResultRequested event with the caller and the id; reads and rejected    *)
(* calls emit nothing.  So the ids of the AssessmentSubmitted events are   *)
(* 1, 2, 3, ... in order, and a ResultRequested event for an id comes      *)
(* after the AssessmentSubmitted event for it and at most once.            *)

\* The position in the log of the AssessmentSubmitted event for the id.
SubmittedAt(id) ==
    CHOOSE i \in 1 .. Len(events) :
        events[i].name = "AssessmentSubmitted" /\ events[i].assessmentId = id

C16_Log ==
    /\ Len(SubmittedEvents) = assessmentCounter
    /\ \A k \in AssignedIds :
          /\ SubmittedEvents[k].assessmentId = k
          /\ SubmittedEvents[k].user = assessments[k].user
          /\ SubmittedEvents[k].timestamp = assessments[k].timestamp
    /\ \A i \in 1 .. Len(events) :
          events[i].name = "ResultRequested" =>
             /\ events[i].assessmentId \in AssignedIds
             /\ events[i].user = assessments[events[i].assessmentId].user
             /\ SubmittedAt(events[i].assessmentId) < i
             /\ RequestsOf(events[i].assessmentId) = {i}
    /\ \A sender \in Addresses, id \in AssessmentIds :
          CASE contract = "CareerPlanningContract" ->
                 Contract_getCareerGuidance(sender, id).st.events = events
            [] contract = "CareerPlanningFHE" ->
                 FHE_getDecryptedCareerGuidance(sender, id).st.events = events
            [] contract = "CareerPlanningWithPapers" ->
                 Papers_getAssessment(sender, id).st.events = events
            [] OTHER -> TRUE

\* The event a step has appended to the log.
C16_Emitted == events'[Len(events')]

\* The ids whose result is requested.
RequestedIds ==
    IF HasReveal THEN {id \in AssignedIds : assessments[id].resultRequested} ELSE {}

C16_Step ==
    /\ \/ events' = events
       \/ /\ events' = Append(events, C16_Emitted)
          /\ last'.err = ""
          /\ CASE C16_Emitted.name = "AssessmentSubmitted" ->
                    /\ last'.op = "submitCareerAssessment"
                    /\ assessmentCounter' = assessmentCounter + 1
                    /\ C16_Emitted.assessmentId = assessmentCounter'
                    /\ C16_Emitted.user = assessments'[assessmentCounter'].user
                    /\ C16_Emitted.timestamp = assessments'[assessmentCounter'].timestamp
               [] C16_Emitted.name = "ResultRequested" ->
                    /\ last'.op = "requestAssessmentResult"
                    /\ RequestedIds' = RequestedIds \cup {C16_Emitted.assessmentId}
                    /\ C16_Emitted.assessmentId \notin RequestedIds
                    /\ C16_Emitted.user = assessments[C16_Emitted.assessmentId].user
               [] C16_Emitted.name = "PaperAdded" -> last'.op = "addPaper"
               [] C16_Emitted.name = "OwnershipTransferred" ->
                    last'.op \in {"transferOwnership", "renounceOwnership"}
               [] OTHER -> FALSE
    /\ assessmentCounter' # assessmentCounter =>
          events' # events /\ C16_Emitted.name = "AssessmentSubmitted"
    /\ RequestedIds' # RequestedIds =>
          events' # events /\ C16_Emitted.name = "ResultRequested"
    /\ last'.err # "" => events' = events

C16_OneEventPerSuccess ==
    /\ []C16_Log
    /\ [][C16_Step]_vars

\* The log holds the submit of assessment 1, the request for it and the
\* submit of assessment 2, and nothing for the rejected second request.
C16_Witness ==
    /\ HasReveal
    /\ Len(events) = 3
    /\ events[1].name = "AssessmentSubmitted" /\ events[1].assessmentId = 1
    /\ events[2] = [name |-> "ResultRequested", user |-> assessments[1].user,
                    assessmentId |-> 1]
    /\ events[3].name = "AssessmentSubmitted" /\ events[3].assessmentId = 2
    /\ last = [op |-> "requestAssessmentResult", err |-> "Result already requested"]

----------------------------------------------------------------------------
(* C17.  As claimed: a successful submit returns the id of the new         *)
(* assessment to its caller, equal to getAssessmentCount right after the   *)
(* call.  submitCareerAssessment has no return value in any of the         *)
(* contracts.  As amended: a successful submit returns nothing; the id of  *)
(* the new assessment is getAssessmentCount right after the call, which is *)
(* also the assessmentId of the AssessmentSubmitted event it emits and the *)
(* last id of the caller's list.                                           *)

\* The paid submits of one caller at one time, one per kind of input.  What
\* a submit returns is the tuple of its return values.
C17_Submits(sender, now) ==
    CASE contract = "CareerPlanningContract" ->
           {Contract_submitCareerAssessment(sender, v, now, TRUE, FALSE, TRUE, 12345) :
               v \in PaidAmounts}
      [] contract = "CareerPlanningSimple" ->
           {Simple_submitCareerAssessment(sender, v, now, b, b, b, b) :
               v \in PaidAmounts, b \in SubmitBytes}
      [] contract = "CareerPlanningFHE" ->
           {FHE_submitCareerAssessment(sender, v, now, TRUE, FALSE, TRUE) :
               v \in PaidAmounts}
      [] contract = "CareerPlanningWithPapers" ->
           {Papers_submitCareerAssessment(sender, v, now, p, 1, 0, 1) :
               v \in PaidAmounts, p \in ActivePaperIds}

C17_Original_SubmitReturnsTheId ==
    \A sender \in Addresses, now \in BlockTimes :
       \A r \in C17_Submits(sender, now) :
          /\ r.err = ""
          /\ r.ret = <<r.st.assessmentCounter>>

C17_SubmitReturnsNothing ==
    \A sender \in Addresses, now \in BlockTimes :
       \A r \in C17_Submits(sender, now) :
          /\ r.err = ""
          /\ r.ret = <<>>
          /\ r.st.assessmentCounter = getAssessmentCount + 1
          /\ r.st.events[Len(r.st.events)].assessmentId = r.st.assessmentCounter
          /\ r.st.userAssessments[sender][Len(r.st.userAssessments[sender])] =
                r.st.assessmentCounter
          /\ NewRecord(r).user = sender

\* The third submit succeeded: its id, 3, is the counter and the id of the
\* event it emitted.
C17_Witness ==
    /\ last = [op |-> "submitCareerAssessment", err |-> ""]
    /\ getAssessmentCount = 3
    /\ events[Len(events)].name = "AssessmentSubmitted"
    /\ events[Len(events)].assessmentId = 3

----------------------------------------------------------------------------
(* C18.  In CareerPlanningContract, getCareerGuidance called by the user   *)
(* of an assessment succeeds as soon as the assessment is created, with    *)
(* resultRequested still false, returns the stored guidanceScore, returns  *)
(* the same value before and after a requestAssessmentResult, and changes  *)
(* no state.                                                               *)

\* What the user of the assessment gets from getCareerGuidance.
C18_Guidance(id) == Contract_getCareerGuidance(assessments[id].user, id)

C18_UserReadsTheScore ==
    contract = "CareerPlanningContract" =>
      \A id \in AssignedIds :
         LET a == assessments[id] IN
         /\ C18_Guidance(id).err = ""
         /\ C18_Guidance(id).st = Storage
         /\ C18_Guidance(id).ret = a.guidanceScore
         /\ C18_Guidance(id).ret =
               ExpectedScore(a.careerGoalHash[2][2], a.skillLevelHash[2][2],
                             a.educationPriorityHash[2][2])

\* No step changes what the user reads.
C18_Step ==
    contract = "CareerPlanningContract" =>
      \A id \in AssignedIds :
         /\ C18_Guidance(id).err' = ""
         /\ C18_Guidance(id).ret' = C18_Guidance(id).ret

C18_SinglePhaseRead ==
    /\ []C18_UserReadsTheScore
    /\ [][C18_Step]_vars

\* The assessment has just been created, its result is not requested, and
\* its user reads 100.
C18_Witness ==
    /\ contract = "CareerPlanningContract"
    /\ last = [op |-> "submitCareerAssessment", err |-> ""]
    /\ assessmentCounter = 1
    /\ ~assessments[1].resultRequested
    /\ C18_Guidance(1).err = ""
    /\ C18_Guidance(1).ret = 100

\* The result has been requested, and the user still reads 100.
C18_WitnessAfterRequest ==
    /\ contract = "CareerPlanningContract"
    /\ last = [op |-> "requestAssessmentResult", err |-> ""]
    /\ assessments[1].resultRequested
    /\ C18_Guidance(1).ret = 100

----------------------------------------------------------------------------
(* C19.  In CareerPlanningContract and CareerPlanningFHE, resultRequested  *)
(* is false right after the assessment is created; it is true only if the  *)
(* assessment's own user has made a successful requestAssessmentResult for *)
(* that id before; and once true it stays true under every later           *)
(* operation of any caller.                                                *)

C19_FlagHasItsRequest ==
    HasReveal =>
      \A id \in AssignedIds :
         /\ isResultRequested(id).err = ""
         /\ isResultRequested(id).ret = assessments[id].resultRequested
         /\ assessments[id].resultRequested <=>
               \E i \in 1 .. Len(events) :
                  events[i] = [name |-> "ResultRequested",
                               user |-> assessments[id].user, assessmentId |-> id]

C19_Step ==
    HasReveal =>
      /\ \A id \in AssignedIds :
            /\ assessments[id].resultRequested => assessments'[id].resultRequested
            /\ ~assessments[id].resultRequested /\ assessments'[id].resultRequested =>
                  last' = [op |-> "requestAssessmentResult", err |-> ""]
      /\ \A id \in AssignedIds' \ AssignedIds : ~assessments'[id].resultRequested

C19_RequestedForGood ==
    /\ []C19_FlagHasItsRequest
    /\ [][C19_Step]_vars

\* The result of assessment 1 was requested before assessment 2 was
\* created: it is still requested, and that of assessment 2 is not.
C19_Witness ==
    /\ contract = "CareerPlanningContract"
    /\ assessmentCounter = 2
    /\ isResultRequested(1).ret
    /\ ~isResultRequested(2).ret
    /\ last = [op |-> "submitCareerAssessment", err |-> ""]

----------------------------------------------------------------------------
(* C20.  Once an assessment is created under id i, its user, its           *)
(* timestamp, its stored inputs (hashes, ciphertexts, paper) and its       *)
(* guidanceScore never change and the record is never deleted: in every    *)
(* later state they are what the creating submit stored.                   *)

\* The members of a record that are set at creation for good.
Frozen(assessment) ==
    IF HasReveal THEN [assessment EXCEPT !.resultRequested = FALSE] ELSE assessment

C20_RecordsAreKept ==
    \A id \in AssignedIds :
       /\ id \in DOMAIN assessments
       /\ assessments[id].user \in Addresses
       /\ assessments[id].user = SubmittedEvents[id].user
       /\ assessments[id].timestamp = SubmittedEvents[id].timestamp
       /\ id \in {getUserAssessments(assessments[id].user)[k] :
                     k \in 1 .. getUserAssessmentCount(assessments[id].user)}

C20_Step ==
    \A id \in AssignedIds :
       /\ id \in DOMAIN assessments'
       /\ Frozen(assessments'[id]) = Frozen(assessments[id])

C20_RecordsAreImmutable ==
    /\ []C20_RecordsAreKept
    /\ [][C20_Step]_vars

\* user1's assessment of time 1 is as it was stored, after a request for
\* its result, a second assessment by user2 and a withdrawal.
C20_Witness ==
    /\ contract = "CareerPlanningFHE"
    /\ assessmentCounter = 2
    /\ assessments[1] = [user |-> "user1", careerGoal |-> TRUE, skillLevel |-> FALSE,
                         educationPriority |-> TRUE, timestamp |-> 1,
                         resultRequested |-> TRUE, guidanceScore |-> 80]
    /\ assessments[2].user = "user2"
    /\ assessments[2].timestamp = 2
    /\ balance = 0
    /\ last = [op |-> "withdraw", err |-> ""]

----------------------------------------------------------------------------
(* C21.  In CareerPlanningContract withdraw is for the owner only: called  *)
(* by any other account it is rejected and leaves the balance of the       *)
(* contract unchanged, so the fees are never paid to an arbitrary caller.  *)
(* The function only requires msg.sender == tx.origin.                     *)

C21_WithdrawIsOwnerOnly ==
    contract = "CareerPlanningContract" =>
      \A sender \in Addresses \ {owner}, origin \in Addresses :
         LET r == Contract_withdraw(sender, origin) IN
         /\ r.err # ""
         /\ r.st.balance = balance

----------------------------------------------------------------------------
(* C22.  A successful requestAssessmentResult(id), in CareerPlanningContract *)
(* and CareerPlanningFHE, changes the resultRequested flag of assessment   *)
(* id and nothing else of the storage: the counter, every field of every   *)
(* other assessment, the other fields of assessment id, every index of     *)
(* userAssessments and the balance are as they were.                       *)

\* The storage with the flag of one assessment raised.
C22_Requested(id) ==
    [Storage EXCEPT !.assessments = [assessments EXCEPT ![id].resultRequested = TRUE]]

C22_RequestSetsOnlyTheFlag ==
    HasReveal =>
      \A sender \in Addresses, id \in AssessmentIds :
         LET r == C6_Request(sender, id) IN
         r.err = "" =>
           /\ id \in AssignedIds
           /\ ~assessments[id].resultRequested
           /\ [r.st EXCEPT !.events = events] = C22_Requested(id)
           /\ r.st.assessments[id].resultRequested
           /\ Frozen(r.st.assessments[id]) = Frozen(assessments[id])
           /\ \A other \in AssignedIds \ {id} :
                 r.st.assessments[other] = assessments[other]

\* user1's request for assessment 1 went through, with the fees of two
\* assessments in the contract and user2's assessment 2 still to be
\* requested.
C22_Witness ==
    /\ contract = "CareerPlanningFHE"
    /\ assessmentCounter = 2
    /\ assessments[1].user = "user1"
    /\ assessments[1].resultRequested
    /\ assessments[2].user = "user2"
    /\ ~assessments[2].resultRequested
    /\ balance = 2 * MIN_FEE
    /\ last = [op |-> "requestAssessmentResult", err |-> ""]

----------------------------------------------------------------------------
(* C23.  The score computation never overflows uint8: every intermediate   *)
(* and final value of 50 (+15) (+20) (+15) is at most 100 < 256, so the    *)
(* checked arithmetic never reverts a submit, and the result is the same   *)
(* for every order in which the three bonuses are added.                   *)

\* The orders in which three bonuses can be added.
C23_Orders ==
    {<<1, 2, 3>>, <<1, 3, 2>>, <<2, 1, 3>>, <<2, 3, 1>>, <<3, 1, 2>>, <<3, 2, 1>>}

\* The checked sums of 50 and the bonuses, taken in the given order.
C23_Sums(bonus, order) ==
    LET a1 == checkedAddUint8(50, bonus[order[1]])
        a2 == checkedAddUint8(a1.value, bonus[order[2]])
        a3 == checkedAddUint8(a2.value, bonus[order[3]])
    IN  <<a1, a2, a3>>

\* value is what every order of the additions gives, without overflow.
C23_InEveryOrder(value, goal, skill, education) ==
    LET bonus == <<Bonus(goal, 15), Bonus(skill, 20), Bonus(education, 15)>> IN
    \A order \in C23_Orders :
       LET sums == C23_Sums(bonus, order) IN
       /\ \A i \in 1 .. 3 : ~sums[i].panic /\ sums[i].value <= 100
       /\ sums[3].value = value

\* The signals the score is checked for.
C23_Signals == UintTriples \cup {<<255, 255, 255>>, <<0, 2, 0>>}

\* The signals a whole submit is checked for.
C23_Submits == BothWays \cup {<<TRUE, TRUE, TRUE>>}

C23_ScoreNeverOverflows ==
    LET now == SomeBlockTime IN
    /\ contract = "CareerPlanningContract" =>
          /\ \A t \in Triples :
                LET score == Contract_calculateGuidanceScore(t[1], t[2], t[3]) IN
                /\ ~score.panic
                /\ score.value <= 100
                /\ C23_InEveryOrder(score.value, t[1], t[2], t[3])
          /\ \A t \in C23_Submits :
                Contract_submitCareerAssessment("user2", MIN_FEE, now,
                                                t[1], t[2], t[3], 0).err = ""
    /\ contract = "CareerPlanningWithPapers" =>
          /\ \A t \in C23_Signals :
                LET score == Papers_guidanceScore(t[1], t[2], t[3]) IN
                /\ ~score.panic
                /\ score.value <= 100
                /\ C23_InEveryOrder(score.value, t[1] > 0, t[2] > 0, t[3] > 0)
          /\ \A paper \in ActivePaperIds, t \in {<<255, 255, 255>>, <<0, 2, 0>>} :
                Papers_submitCareerAssessment("user2", MIN_FEE, now, paper,
                                              t[1], t[2], t[3]).err = ""
    /\ last.err # "Panic(0x11)"

\* All three bonuses were added: (1, 1, 1) was submitted for a paper and
\* scored 100.
C23_Witness ==
    /\ contract = "CareerPlanningWithPapers"
    /\ assessmentCounter = 1
    /\ assessments[1].encryptedCareerGoal = 1
    /\ assessments[1].encryptedSkillLevel = 1
    /\ assessments[1].encryptedEducationPriority = 1
    /\ assessments[1].guidanceScore = 100
    /\ last = [op |-> "submitCareerAssessment", err |-> ""]

----------------------------------------------------------------------------
(* C24.  In the Ownable variants, CareerPlanningFHE and                    *)
(* CareerPlanningWithPapers, a withdraw by a caller other than the owner   *)
(* is rejected and leaves the balance unchanged; a withdraw by the owner   *)
(* transfers the entire balance to the owner and leaves a balance of 0.    *)
(* Either way the counter, the assessments and the indexes are unchanged.  *)

C24_Withdraw(sender) ==
    IF contract = "CareerPlanningFHE" THEN FHE_withdraw(sender)
    ELSE Papers_withdraw(sender)

C24_OwnableWithdraw ==
    contract \in {"CareerPlanningFHE", "CareerPlanningWithPapers"} =>
      \A sender \in Addresses :
         LET r == C24_Withdraw(sender) IN
         /\ r.st.assessmentCounter = assessmentCounter
         /\ r.st.assessments = assessments
         /\ r.st.userAssessments = userAssessments
         /\ r.st.papers = papers /\ r.st.paperCounter = paperCounter
         /\ r.st.owner = owner
         /\ IF sender = owner
            THEN /\ r.err = ""
                 /\ r.st.balance = 0
                 /\ Ownable_withdrawPayee(sender) = owner
            ELSE /\ r.err # ""
                 /\ r.st.balance = balance
                 /\ r.st = Storage

\* Ownership went to user1 before the assessment was paid for, and user1,
\* the owner, has withdrawn the fee: the assessment is there and the
\* balance is 0.
C24_Witness ==
    /\ contract = "CareerPlanningFHE"
    /\ owner = "user1"
    /\ Len(events) = 3
    /\ events[2] = [name |-> "OwnershipTransferred", previousOwner |-> Deployer,
                    newOwner |-> "user1"]
    /\ events[3].name = "AssessmentSubmitted"
    /\ assessmentCounter = 1
    /\ balance = 0
    /\ last = [op |-> "withdraw", err |-> ""]

----------------------------------------------------------------------------
(* C25.  In CareerPlanningWithPapers the paper ids are dense, 1 to         *)
(* paperCounter; only the owner's addPaper creates a paper (a caller other *)
(* than the owner is rejected and nothing changes) and no operation        *)
(* deactivates or alters one.  So a paid submit succeeds iff               *)
(* 1 <= paperId <= paperCounter, any other id being rejected with "Paper   *)
(* not found or inactive" and no change, and getActivePapers returns       *)
(* exactly 1, ..., paperCounter in ascending order.                        *)

C25_PapersAreDenseAndActive ==
    LET now == SomeBlockTime IN
    contract = "CareerPlanningWithPapers" =>
      /\ Papers_getPaperCount = paperCounter
      /\ DOMAIN papers = 1 .. Papers_getPaperCount
      /\ \A p \in 1 .. Papers_getPaperCount :
            /\ papers[p].id = p
            /\ papers[p].isActive
            /\ Papers_getPaper(p).ret[1] = p
            /\ Papers_getPaper(p).ret[5]
      /\ Papers_getActivePapers.err = ""
      /\ Papers_getActivePapers.ret = [i \in 1 .. Papers_getPaperCount |-> i]
      /\ \A sender \in Addresses :
            LET r == Papers_addPaper(sender, now, "FHE", "FHE", "FHE") IN
            IF sender = owner
            THEN /\ r.err = ""
                 /\ r.st.paperCounter = paperCounter + 1
                 /\ \A p \in 1 .. paperCounter : r.st.papers[p] = papers[p]
            ELSE /\ r.err # ""
                 /\ r.st = Storage
      /\ \A sender \in {"owner", "user2"}, paperId \in PaperIds, t \in SubmitUints :
            LET r == Papers_submitCareerAssessment(sender, MIN_FEE, now, paperId,
                                                   t[1], t[2], t[3])
            IN  IF 1 <= paperId /\ paperId <= Papers_getPaperCount
                THEN r.err = ""
                ELSE /\ r.err = "Paper not found or inactive"
                     /\ r.st = Storage

C25_Step ==
    contract = "CareerPlanningWithPapers" =>
      /\ \A p \in 1 .. paperCounter : papers'[p] = papers[p]
      /\ paperCounter' # paperCounter =>
            /\ last' = [op |-> "addPaper", err |-> ""]
            /\ paperCounter' = paperCounter + 1
      /\ papers' # papers => paperCounter' # paperCounter

C25_PapersAreAddedByTheOwnerForGood ==
    /\ []C25_PapersAreDenseAndActive
    /\ [][C25_Step]_vars

\* The deployer added paper 1 and passed the ownership to user1, who added
\* paper 2; an assessment for paper 2 was stored and a paid submit for a
\* paper that does not exist was rejected.
C25_Witness ==
    /\ contract = "CareerPlanningWithPapers"
    /\ owner = "user1"
    /\ paperCounter = 2
    /\ events[2].name = "PaperAdded"
    /\ events[3].name = "OwnershipTransferred"
    /\ events[4].name = "PaperAdded"
    /\ Papers_getActivePapers.ret = <<1, 2>>
    /\ assessmentCounter = 1
    /\ assessments[1].selectedPaperId = 2
    /\ last = [op |-> "submitCareerAssessment", err |-> "Paper not found or inactive"]

----------------------------------------------------------------------------
(* C26.  Fee accounting.  The balance of the contract is the sum of the    *)
(* payments of the successful submits and of the plain deposits taken by   *)
(* receive(), less the amounts withdrawn: a successful submit adds what it *)
(* paid, a rejected submit adds nothing, a deposit adds its value without  *)
(* creating a record or changing the count, a withdrawal takes the whole   *)
(* balance, and nothing else moves the balance.  So as long as no          *)
(* withdrawal is made, balance >= MIN_FEE * getAssessmentCount.            *)

\* What the calls of CareerPlanningContract do to the balance.
C26_BalanceEffects ==
    LET now == SomeBlockTime IN
    contract = "CareerPlanningContract" =>
      /\ getContractBalance = balance
      /\ \A value \in PaidAmounts \cup LowPayments :
            LET r == Contract_submitCareerAssessment("user2", value, now,
                                                     TRUE, FALSE, TRUE, 0)
            IN  IF value >= MIN_FEE
                THEN /\ r.err = ""
                     /\ r.st.balance = getContractBalance + value
                     /\ r.st.assessmentCounter = getAssessmentCount + 1
                ELSE /\ r.err # ""
                     /\ r.st.balance = getContractBalance
      /\ \A value \in {1, MIN_FEE} :
            /\ receive(value).err = ""
            /\ receive(value).st = [Storage EXCEPT !.balance = getContractBalance + value]
            /\ receive(value).st.assessmentCounter = getAssessmentCount
      /\ Contract_withdraw("user1", "user1").st.balance = 0

\* The fees a submit of the model can pay.
C26_Fees == {value \in Payments : feeIsPaid(value)}

C26_Step ==
    /\ balance' # balance =>
         /\ last'.err = ""
         /\ CASE last'.op = "submitCareerAssessment" ->
                   /\ balance' - balance \in C26_Fees
                   /\ assessmentCounter' = assessmentCounter + 1
              [] last'.op = "receive" ->
                   /\ balance' > balance
                   /\ assessmentCounter' = assessmentCounter
                   /\ assessments' = assessments
                   /\ userAssessments' = userAssessments
              [] last'.op = "withdraw" -> balance' = 0
              [] OTHER -> FALSE
    /\ assessmentCounter' # assessmentCounter => balance' - balance >= MIN_FEE
    /\ last'.err # "" => balance' = balance
    /\ last'.op # "withdraw" /\ balance >= MIN_FEE * assessmentCounter =>
          balance' >= MIN_FEE * assessmentCounter'

C26_FeeAccounting ==
    /\ []C26_BalanceEffects
    /\ [][C26_Step]_vars

\* A deposit and then the fee of one assessment are in the contract, and a
\* submit that paid too little has added nothing.
C26_Witness ==
    /\ contract = "CareerPlanningContract"
    /\ assessmentCounter = 1
    /\ getContractBalance = 2 * MIN_FEE
    /\ last = [op |-> "submitCareerAssessment", err |-> "Minimum fee required"]

----------------------------------------------------------------------------
(* C27.  As claimed: for an id that was never assigned (0, or greater than *)
(* getAssessmentCount) the unrestricted reads never fail and return the    *)
(* default values to every caller, every operation restricted to the       *)
(* submitter (requestAssessmentResult, the guidance read,                  *)
(* getAssessmentTimestamp) is rejected for every caller, and no sequence   *)
(* of calls sets resultRequested on such an id.  A read made with the zero *)
(* address as msg.sender is not rejected: the record of such an id has the *)
(* zero address as user.  As amended: for an id that was never assigned    *)
(* isResultRequested returns false and getAssessmentInfo returns (zero     *)
(* address, 0, false) to every caller; for every caller that is an account *)
(* requestAssessmentResult fails with "Not your assessment" and changes    *)
(* nothing, and the guidance read and getAssessmentTimestamp fail with     *)
(* "Not authorized"; for the zero address as caller getAssessmentTimestamp *)
(* returns 0, getCareerGuidance of CareerPlanningContract returns 0,       *)
(* getEncryptedCareerGuidance of CareerPlanningFHE returns 0,              *)
(* getDecryptedCareerGuidance fails with "Result not requested yet", and a *)
(* simulated requestAssessmentResult is not rejected; no transaction sets  *)
(* resultRequested or logs ResultRequested for an id that is not assigned. *)

\* The guidance read of the contract at hand.
C27_Guidance(sender, id) ==
    IF contract = "CareerPlanningContract" THEN Contract_getCareerGuidance(sender, id)
    ELSE FHE_getDecryptedCareerGuidance(sender, id)

\* The unrestricted reads of an id return the defaults, and nothing was
\* requested for it.
C27_Defaults(id) ==
    /\ id = 0 \/ id > getAssessmentCount
    /\ isResultRequested(id).err = ""
    /\ isResultRequested(id).ret = FALSE
    /\ getAssessmentInfo(id).err = ""
    /\ getAssessmentInfo(id).ret = <<ZeroAddress, 0, FALSE>>
    /\ RequestsOf(id) = {}

C27_Original_RestrictedFailForEveryCaller ==
    HasReveal =>
      \A id \in UnassignedIds :
         /\ C27_Defaults(id)
         /\ \A sender \in Callers :
               /\ C6_Request(sender, id).err # ""
               /\ C27_Guidance(sender, id).err # ""
               /\ getAssessmentTimestamp(sender, id).err # ""

\* What the zero address as caller gets for an id that is not assigned.
C27_ZeroCaller(id) ==
    /\ getAssessmentTimestamp(ZeroAddress, id).err = ""
    /\ getAssessmentTimestamp(ZeroAddress, id).ret = 0
    /\ getAssessmentTimestamp(ZeroAddress, id).st = Storage
    /\ C6_Request(ZeroAddress, id).err = ""
    /\ contract = "CareerPlanningContract" =>
          /\ Contract_getCareerGuidance(ZeroAddress, id).err = ""
          /\ Contract_getCareerGuidance(ZeroAddress, id).ret = 0
    /\ contract = "CareerPlanningFHE" =>
          /\ FHE_getDecryptedCareerGuidance(ZeroAddress, id).err
                = "Result not requested yet"
          /\ FHE_getEncryptedCareerGuidance(ZeroAddress, id).err = ""
          /\ FHE_getEncryptedCareerGuidance(ZeroAddress, id).ret = 0

C27_UnassignedIdsReadAsDefaults ==
    HasReveal =>
      \A id \in UnassignedIds :
         /\ C27_Defaults(id)
         /\ \A sender \in Addresses :
               /\ C6_Request(sender, id).err = "Not your assessment"
               /\ C6_Request(sender, id).st = Storage
               /\ C27_Guidance(sender, id).err = "Not authorized"
               /\ getAssessmentTimestamp(sender, id).err = "Not authorized"
         /\ C27_ZeroCaller(id)

\* With assessment 1 stored and its result requested, a request for an id
\* that is not assigned has been rejected; the reads of ids 0 and 2 fail for
\* an account and return 0 to the zero address.
C27_Witness ==
    /\ contract = "CareerPlanningContract"
    /\ assessmentCounter = 1
    /\ UnassignedIds = {0, 2}
    /\ isResultRequested(1).ret
    /\ ~isResultRequested(2).ret
    /\ getAssessmentTimestamp("user2", 2).err = "Not authorized"
    /\ getAssessmentTimestamp(ZeroAddress, 2).ret = 0
    /\ Contract_getCareerGuidance(ZeroAddress, 0).err = ""
    /\ last = [op |-> "requestAssessmentResult", err |-> "Not your assessment"]

----------------------------------------------------------------------------
(* C28.  The static server answers every request with exactly one response *)
(* and keeps serving afterwards.  An OPTIONS request gets status 200 and   *)
(* an empty body.  Otherwise a path that does not exist gets 404 "File not *)
(* found"; a path that exists and is read gets 200 with the Content-Type   *)
(* the table has for its extension, application/octet-stream for an        *)
(* extension the table does not have; a path that exists but whose read    *)
(* throws, such as a directory, gets 500.  Every response, 404 and 500     *)
(* included, carries the three CORS headers.                               *)

\* The path a request asks for, and its last segment.
C28_Path(req) == join(dirname, IF req.url = Slash THEN IndexHtml ELSE req.url)
C28_Base(req) == C28_Path(req).segments[Len(C28_Path(req).segments)]

\* The content type of the table for a file name, by its part after the
\* last dot.
C28_ContentType(base) ==
    IF Len(base) >= 2 /\ base[Len(base)] \in DOMAIN mimeTypes /\ base[1] # ""
    THEN mimeTypes[base[Len(base)]]
    ELSE "application/octet-stream"

C28_HasCORS(res) ==
    /\ {"Access-Control-Allow-Origin", "Access-Control-Allow-Methods",
        "Access-Control-Allow-Headers"} \subseteq DOMAIN res.headers
    /\ res.headers["Access-Control-Allow-Origin"] = "*"
    /\ res.headers["Access-Control-Allow-Methods"] = "GET, POST, OPTIONS"
    /\ res.headers["Access-Control-Allow-Headers"] = "Content-Type"

\* res is the one response the claim gives to req.
C28_Answered(req, res) ==
    /\ res.ends = 1
    /\ res.heads = 1
    /\ C28_HasCORS(res)
    /\ IF req.method = "OPTIONS"
       THEN res.statusCode = 200 /\ res.body = <<>>
       ELSE LET path == C28_Path(req) IN
            CASE path.segments \in Directories ->
                   /\ res.statusCode = 500
                   /\ res.body[1] = "Server error: "
              [] path.segments \in Files /\ ~path.trailingSlash ->
                   /\ res.statusCode = 200
                   /\ res.body = <<"content of", path.segments>>
                   /\ "Content-Type" \in DOMAIN res.headers
                   /\ res.headers["Content-Type"] = C28_ContentType(C28_Base(req))
              [] OTHER ->
                   /\ res.statusCode = 404
                   /\ res.body = <<"File not found">>

C28_OneResponsePerRequest ==
    /\ \A i \in 1 .. Len(served) : C28_Answered(served[i].request, served[i].response)
    /\ Len(served) < MaxRequests =>
          \A req \in Requests : C28_Answered(req, requestListener(req))
    /\ LET get(url) == requestListener([method |-> "GET", url |-> url]) IN
       Len(served) < MaxRequests =>
       /\ get(Slash).headers["Content-Type"] = "text/html"
       /\ get(<<EmptySegment, <<"app", "js">>>>).headers["Content-Type"] = "text/javascript"
       /\ get(<<EmptySegment, <<"data", "bin">>>>).headers["Content-Type"] =
             "application/octet-stream"
       /\ get(<<EmptySegment, <<"README">>>>).headers["Content-Type"] =
             "application/octet-stream"
       /\ get(<<EmptySegment, <<"missing", "html">>>>).statusCode = 404
       /\ get(<<EmptySegment, <<"public">>>>).statusCode = 500

\* The server has answered GET /public, a directory, with 500 and then
\* GET /public/style.css with 200 and text/css.
C28_Witness ==
    /\ Len(served) = 2
    /\ served[1].request = [method |-> "GET", url |-> <<EmptySegment, <<"public">>>>]
    /\ served[1].response.statusCode = 500
    /\ served[2].request =
          [method |-> "GET", url |-> <<EmptySegment, <<"public">>, <<"style", "css">>>>]
    /\ served[2].response.statusCode = 200
    /\ served[2].response.headers["Content-Type"] = "text/css"
    /\ served[2].response.ends = 1

----------------------------------------------------------------------------
(* C29.  The static server only ever reads and serves files inside its own *)
(* directory: for every request URL, also one with ".." segments, the path *)
(* passed to existsSync and readFileSync stays within the directory of the *)
(* server, and "/" resolves to index.html in that directory.  The listener *)
(* joins the URL to the directory as it is, and join lets ".." climb out.  *)

\* The path is the directory of the server or lies below it.
C29_Inside(path) ==
    LET root == normalizeInto(<<>>, dirname) IN
    /\ Len(path.segments) >= Len(root)
    /\ SubSeq(path.segments, 1, Len(root)) = root

C29_ReadsStayInsideTheRoot ==
    \A i \in 1 .. Len(served) :
       LET req == served[i].request
           res == served[i].response
       IN  /\ \A k \in 1 .. Len(res.fsCalls) : C29_Inside(res.fsCalls[k].path)
           /\ req.url = Slash /\ req.method # "OPTIONS" =>
                 res.fsCalls[1].path.segments =
                    normalizeInto(<<>>, dirname) \o IndexHtml

====
